---- MODULE Spec2Model ----
(***************************************************************************)
(* Connection / authentication / transfer state machine of                 *)
(* YellowNetworkSDK (src/src/yellow/yellow-network-sdk.ts).  The legacy     *)
(* YellowNetworkService (src/unnamed/part_003) has the same code for the    *)
(* operations modelled here, minus the channel table.                       *)
(*                                                                         *)
(* JavaScript runs one task at a time: every action below is one           *)
(* synchronous run of code, from an external call or event up to the next   *)
(* await (or the end of the handler).  The code after an await is a         *)
(* separate action that consumes an entry of a "pending" variable.          *)
(***************************************************************************)
EXTENDS Integers, Sequences, FiniteSets, TLC

\* ---------------------------------------------------------------- bounds
MaxZombies == 1       \* replaced sockets whose close event is still to fire
MaxKeys == 2          \* session keys alive at the same time
MaxTime == 2          \* clock values (seconds) Date.now() can return
MaxAuthInFlight == 1  \* handshakes in progress (pending calls and frames)
MaxAuthOverlap == 2   \* the same, where handshakes are to overlap
MaxTransferInFlight == 1  \* transfers in progress (pending calls and frames)
MaxTransferOverlap == 2   \* the same, where transfers are to overlap
MaxChanInFlight == 1  \* channel operations in progress
MaxSwapInFlight == 2  \* swap calls in progress (pending calls and frames)
MaxSwapSessions == 2       \* session ids createSwapSession() can produce
MaxSwapFlowInFlight == 1   \* swap and channel calls that can be started
MaxSwapOverlap == 2        \* swap calls in progress, where they overlap
MaxTokens == 2             \* tokens with a channel, where a sweep is checked
MaxSweepInFlight == 2      \* channel calls in progress, with sweeps
MaxSwapWaits == 2     \* waitForSwapResponse calls not yet forgotten
MantissaBits == 2     \* significant binary digits of a number (a double
                      \* has 53)

\* ------------------------------------------------------- program constants
SessionDuration == 3600          \* config.sessionDuration default
NULL == 0 - 1                    \* this.socket === null
CONNECTING == 0                  \* WebSocket.readyState values
OPEN == 1
CLOSING == 2
CLOSED == 3

Accounts == {1, 2}               \* wallet addresses; 0 stands for null
Tables == {1}                    \* non-empty balance tables; 0 is {}
Tokens == {1}                    \* token addresses
Amounts == {1, 5}                \* deposit and withdrawal amounts
Allowances == {0, 2}             \* allowances the token contract reports
SwapSessionIds == {1}            \* session ids createSwapSession makes up

VARIABLES
  socket,                 \* this.socket: NULL, or its readyState
  zombies,                \* sockets this.socket no longer refers to, whose
                          \* close event is still to fire (all are CLOSING)
  connectionStatus,       \* this.connectionStatus
  messageQueue,           \* this.messageQueue
  authState,              \* this.authState
  walletClient,           \* this.walletClient: 0 or the signer's address
  sessionExpireTimestamp, \* this.sessionExpireTimestamp: 0 stands for ""
  balances,               \* this.balances: 0 ({}) or a table
  isTransferring,         \* this.isTransferring
  storedKey,              \* localStorage yellow_network_session_key (0 none)
  storedJWT,              \* localStorage yellow_network_jwt_token present
  wire,                   \* frames transmitted on the open socket, unanswered
  pendingAuthReq,         \* startAuthentication calls awaiting the payload
  pendingSig,             \* handleAuthChallenge calls awaiting the signature
  pendingBal,             \* fetchBalances calls awaiting the payload
  pendingTransfer,        \* transfer calls awaiting the signed payload
  channels,               \* this.channels: channelId -> ChannelState
  pendingChan,            \* channel operations at an await
  heldChannels,           \* the records of the table the application last
                          \* got from getChannels(), then and now
  activeSwapSession,      \* this.activeSwapSession
  swapWaits,              \* waitForSwapResponse calls: timers and the
                          \* filters wrapped around this.handleMessage
  pendingSwap,            \* swap calls awaiting signSessionData
  last                    \* what the last step did (observation only)

vars == <<socket, zombies, connectionStatus, messageQueue, authState,
          walletClient, sessionExpireTimestamp, balances, isTransferring,
          storedKey, storedJWT, wire, pendingAuthReq, pendingSig, pendingBal,
          pendingTransfer, channels, pendingChan, heldChannels,
          activeSwapSession, swapWaits, pendingSwap, last>>

swapVars == <<activeSwapSession, swapWaits, pendingSwap>>

\* ---------------------------------------------------------------- helpers
RemoveAt(s, i) == [j \in 1..(Len(s) - 1) |-> IF j < i THEN s[j] ELSE s[j + 1]]

Count(s, kinds) == Cardinality({i \in 1..Len(s) : s[i].kind \in kinds})

Range(s) == {s[i] : i \in 1..Len(s)}

\* A frame on its way to the server.  Unused fields are 0.
\*   acct/key/exp: the account, session-key address and expiry it carries
\*   racct/rkey/rexp (auth_verify only): what the auth-request carried that
\*   the challenge being answered was issued for
Frame(kind, acct, key, exp, racct, rkey, rexp) ==
  [kind |-> kind, acct |-> acct, key |-> key, exp |-> exp,
   racct |-> racct, rkey |-> rkey, rexp |-> rexp]

\* this.handleMessage: the swapIds of the filters waitForSwapResponse has
\* wrapped around the method, innermost first.  << >> is the method itself.
handleMessageFilters ==
  LET installed == SelectSeq(swapWaits, LAMBDA w : w.installed)
  IN [k \in 1..Len(installed) |-> installed[k].swapId]

\* A filter that does not pass on the frame it matches.
waitForSwapResponseFilterSwallows(matches, inner) ==
  IF matches THEN 0 ELSE inner

\* The filter of waitForSwapResponse(): `await originalHandler(data)` comes
\* first, whether or not the frame matches; the runs of the method itself
\* are those of the handler the filter wraps.
waitForSwapResponseFilter(matches, inner) == inner

\* The number of runs of the method handleMessage() itself when a frame with
\* this swapId (0: not a swap_response) is given to the handler made of
\* these filters.
RECURSIVE handleMessageRuns(_, _)
handleMessageRuns(filters, swapId) ==
  IF filters = << >>
    THEN 1
    ELSE waitForSwapResponseFilter(
           filters[Len(filters)] = swapId,
           handleMessageRuns(SubSeq(filters, 1, Len(filters) - 1), swapId))

\* The steps that are socket.onmessage for one inbound frame.
InboundFrame(op, res) ==
  \/ op \in {"handleAuthSuccess", "handleAuthVerifyFailure",
              "handleBalanceResponse", "handleError", "handleMessage",
              "handleSwapResponse", "handleTransferResponse", "onmessage"}
  \/ op = "handleAuthChallenge" /\ res \notin {"sent", "rejected"}

\* What one step did: the operation, its result, the number of frames it
\* handed to socket.send or to the queue, and what it published to the
\* transfer and error subscribers (cpub: to the channel subscribers, set
\* by notifyChannelListeners below).  `rejected` remembers that the wallet
\* refused a signature of step 2 and authenticate() was not called since.
\* `dispatched` is the number of runs of handleMessage() itself the step
\* made: none unless the step is onmessage for a frame JSON.parse accepts.
Did(op, res, sent, tpub, epub) ==
  [op |-> op, res |-> res, sent |-> sent, tpub |-> tpub, epub |-> epub,
   cpub |-> FALSE,
   dispatched |->
     IF InboundFrame(op, res) /\ ~(op = "onmessage" /\ res = "logged")
       THEN handleMessageRuns(
              handleMessageFilters,
              IF op = "handleSwapResponse" THEN wire[1].rexp ELSE 0)
       ELSE 0,
   rejected |-> IF epub = "Signature rejected. Please try again." THEN TRUE
                ELSE IF op = "authenticate" THEN FALSE
                ELSE last.rejected]

\* The step also ran notifyChannelListeners(): the channel subscribers got
\* a copy of the table.
notifyChannelListeners(did) == [did EXCEPT !.cpub = TRUE]

\* sendMessage(payload): transmit if the socket is open, else queue.
sendMessageWire(w, p) == IF socket = OPEN THEN Append(w, p) ELSE w

\* A sendMessage() that queues with unshift instead of push.
sendMessageQueueFront(q, p) == IF socket = OPEN THEN q ELSE <<p>> \o q

sendMessageQueue(q, p) == IF socket = OPEN THEN q ELSE Append(q, p)

\* generateSessionKey(): a key no call, frame or store still refers to.
KeysInUse ==
  {authState.sessionKey, storedKey}
    \cup {p.key : p \in Range(pendingAuthReq)}
    \cup {p.key : p \in Range(pendingSig)} \cup {p.rkey : p \in Range(pendingSig)}
    \cup {p.key : p \in Range(pendingBal)}
    \cup {p.key : p \in Range(pendingTransfer)}
    \cup {f.key : f \in Range(wire)} \cup {f.rkey : f \in Range(wire)}
    \cup {f.key : f \in Range(messageQueue)}
    \cup {f.rkey : f \in Range(messageQueue)}
CanGenerate == \E k \in 1..MaxKeys : k \notin KeysInUse

\* A generateSessionKey() that returns the key the session already has.
generateSessionKeyAgain == authState.sessionKey

generateSessionKey ==
  CHOOSE k \in 1..MaxKeys :
    k \notin KeysInUse /\ \A j \in 1..MaxKeys : j \notin KeysInUse => k <= j

\* An initializeSessionKey() that only loads, and generates nothing.
initializeSessionKeyLoadOnly(stored) == stored

\* initializeSessionKey(), given the store: the stored key if one is there,
\* else a newly generated key, which is stored.
initializeSessionKey(stored) ==
  IF stored # 0 THEN stored ELSE generateSessionKey

\* Date.now() in seconds never runs backwards: the values it can return
\* now, given the expiry computed from its last reading.
Times == {t \in 1..MaxTime : t + SessionDuration >= sessionExpireTimestamp}

\* Handshakes and transfers in progress.
AuthKinds == {"auth_request", "auth_verify", "get_ledger_balances"}
AuthInFlight ==
  Len(pendingAuthReq) + Len(pendingSig) + Len(pendingBal)
    + Count(wire, AuthKinds) + Count(messageQueue, AuthKinds)
TransferInFlight ==
  Len(pendingTransfer) + Count(wire, {"transfer"})
    + Count(messageQueue, {"transfer"})

\* Swap and channel calls in progress, and swap frames not yet answered.
SwapFlowInFlight ==
  Len(pendingSwap) + Len(pendingChan)
    + Count(messageQueue, {"create_swap_session", "swap_channel_created",
                           "initiate_swap"})
    + Count(wire, {"create_swap_session", "swap_channel_created",
                   "initiate_swap"})

SwapInFlight ==
  Len(pendingSwap)
    + Count(messageQueue, {"create_swap_session", "initiate_swap"})
    + Count(wire, {"create_swap_session", "initiate_swap"})

\* ------------------------------------------------------------------- Init
\* The constructor, on a device with no stored bearer token:
\* initializeSessionKey() loads the stored session key or generates and
\* stores one; either way key 1.
Init ==
  /\ socket = NULL
  /\ zombies = 0
  /\ connectionStatus = "Disconnected"
  /\ messageQueue = << >>
  /\ authState = [isAuthenticated |-> FALSE, isAuthAttempted |-> FALSE,
                  sessionKey |-> 1, account |-> 0]
  /\ walletClient = 0
  /\ sessionExpireTimestamp = 0
  /\ balances = 0
  /\ isTransferring = FALSE
  /\ storedKey = 1
  /\ storedJWT = FALSE
  /\ wire = << >>
  /\ pendingAuthReq = << >>
  /\ pendingSig = << >>
  /\ pendingBal = << >>
  /\ pendingTransfer = << >>
  /\ channels = {}
  /\ pendingChan = << >>
  /\ heldChannels = {}
  /\ activeSwapSession = [sessionId |-> 0, status |-> "", swapId |-> 0,
                          channelId |-> << >>]
  /\ swapWaits = << >>
  /\ pendingSwap = << >>
  /\ last = [op |-> "init", res |-> "", sent |-> 0, tpub |-> "none",
             epub |-> "none",
             cpub |-> FALSE, dispatched |-> 0, rejected |-> FALSE]

\* ------------------------------------------------------------- connection
\* connect(): returns at once while the current socket is CONNECTING or
\* OPEN; otherwise creates a socket (config.wsUrl is configured).  A
\* replaced socket that has not fired its close event yet will still do so.
\* An early return that forgets the socket that is still connecting.
connectReturnsEarlyOnlyWhenOpen == socket = OPEN

\* The early return of connect(): this.socket && this.socket.readyState < 2
connectReturnsEarly == socket # NULL /\ socket < 2

connect ==
  /\ UNCHANGED <<channels, pendingChan, heldChannels>>
  /\ UNCHANGED swapVars
  /\ IF connectReturnsEarly
       THEN /\ UNCHANGED <<socket, zombies, connectionStatus>>
            /\ last' = Did("connect", "noop", 0, "none", "none")
       ELSE /\ zombies' = IF socket \in {CONNECTING, OPEN, CLOSING}
                             THEN zombies + 1 ELSE zombies
            /\ zombies' <= MaxZombies
            /\ socket' = CONNECTING
            /\ connectionStatus' = "Connecting"
            /\ last' = Did("connect", "created", 0, "none", "none")
  /\ UNCHANGED <<messageQueue, authState, walletClient,
                 sessionExpireTimestamp, balances, isTransferring, storedKey,
                 storedJWT, wire, pendingAuthReq, pendingSig, pendingBal,
                 pendingTransfer>>

\* disconnect(): socket.close() starts the closing handshake of the current
\* socket (its close event fires later), then socket = null.
disconnect ==
  /\ UNCHANGED <<channels, pendingChan, heldChannels>>
  /\ UNCHANGED swapVars
  /\ zombies' = IF socket \in {CONNECTING, OPEN, CLOSING}
                  THEN zombies + 1 ELSE zombies
  /\ zombies' <= MaxZombies
  /\ wire' = IF socket = OPEN THEN << >> ELSE wire
  /\ socket' = NULL
  /\ connectionStatus' = "Disconnected"
  /\ last' = Did("disconnect", "", 0, "none", "none")
  /\ UNCHANGED <<messageQueue, authState, walletClient,
                 sessionExpireTimestamp, balances, isTransferring, storedKey,
                 storedJWT, pendingAuthReq, pendingSig, pendingBal,
                 pendingTransfer>>

\* A condition that does not look at isAuthAttempted.
tryAutoAuthenticateAgain(as, status, wc) ==
  /\ as.account # 0
  /\ as.sessionKey # 0
  /\ status = "Connected"
  /\ ~as.isAuthenticated
  /\ wc # 0

\* The condition of tryAutoAuthenticate(), on the given state.
tryAutoAuthenticate(as, status, wc) ==
  /\ as.account # 0
  /\ as.sessionKey # 0
  /\ status = "Connected"
  /\ ~as.isAuthenticated
  /\ ~as.isAuthAttempted
  /\ wc # 0

\* startAuthentication() up to its await, at time t, for an auth state whose
\* account and session key are set: the captured authParams.
startAuthentication(as, t) ==
  [acct |-> as.account, key |-> as.sessionKey, exp |-> t + SessionDuration]

\* socket.onopen of the current socket, at time t.
onopen(t) ==
  /\ UNCHANGED <<channels, pendingChan, heldChannels>>
  /\ UNCHANGED swapVars
  /\ socket = CONNECTING
  /\ socket' = OPEN
  /\ connectionStatus' = "Connected"
  /\ wire' = wire \o messageQueue
  /\ messageQueue' = << >>
  /\ IF tryAutoAuthenticate(authState, "Connected", walletClient)
       THEN /\ authState' = [authState EXCEPT !.isAuthAttempted = TRUE]
            /\ sessionExpireTimestamp' = t + SessionDuration
            /\ pendingAuthReq' =
                 Append(pendingAuthReq, startAuthentication(authState, t))
            /\ last' = Did("onopen", "auth", Len(messageQueue),
                           "none", "none")
       ELSE /\ UNCHANGED <<authState, sessionExpireTimestamp, pendingAuthReq>>
            /\ last' = Did("onopen", "noauth", Len(messageQueue),
                           "none", "none")
  /\ UNCHANGED <<zombies, walletClient, balances, isTransferring, storedKey,
                 storedJWT, pendingSig, pendingBal, pendingTransfer>>

\* The server's Close frame arrives on the open socket: readyState becomes
\* CLOSING; the close event follows later.
closingHandshake ==
  /\ UNCHANGED <<channels, pendingChan, heldChannels>>
  /\ UNCHANGED swapVars
  /\ socket = OPEN
  /\ socket' = CLOSING
  /\ wire' = << >>
  /\ last' = Did("closing", "", 0, "none", "none")
  /\ UNCHANGED <<zombies, connectionStatus, messageQueue, authState,
                 walletClient, sessionExpireTimestamp, balances,
                 isTransferring, storedKey, storedJWT, pendingAuthReq,
                 pendingSig, pendingBal, pendingTransfer>>

\* socket.onclose of the current socket: the connection closed (with
\* socket.onerror first when it failed; both set the same status).
onclose ==
  /\ UNCHANGED <<channels, pendingChan, heldChannels>>
  /\ UNCHANGED swapVars
  /\ socket \in {CONNECTING, OPEN, CLOSING}
  /\ socket' = CLOSED
  /\ wire' = << >>
  /\ connectionStatus' = "Disconnected"
  /\ last' = Did("onclose", "current", 0, "none", "none")
  /\ UNCHANGED <<zombies, messageQueue, authState, walletClient,
                 sessionExpireTimestamp, balances, isTransferring, storedKey,
                 storedJWT, pendingAuthReq, pendingSig, pendingBal,
                 pendingTransfer>>

\* socket.onclose of a socket that this.socket no longer refers to.
oncloseReplaced ==
  /\ UNCHANGED <<channels, pendingChan, heldChannels>>
  /\ UNCHANGED swapVars
  /\ zombies > 0
  /\ zombies' = zombies - 1
  /\ connectionStatus' = "Disconnected"
  /\ last' = Did("onclose", "replaced", 0, "none", "none")
  /\ UNCHANGED <<socket, messageQueue, authState, walletClient,
                 sessionExpireTimestamp, balances, isTransferring, storedKey,
                 storedJWT, wire, pendingAuthReq, pendingSig, pendingBal,
                 pendingTransfer>>

\* --------------------------------------------------------- authentication
\* authenticate(walletClient, account), called at time t: records both;
\* when Connected it runs startAuthentication() up to its await, whatever
\* the flags are.
authenticate(w, a, t) ==
  /\ UNCHANGED <<channels, pendingChan, heldChannels>>
  /\ UNCHANGED swapVars
  /\ walletClient' = w
  /\ IF connectionStatus = "Connected"
       THEN IF authState.sessionKey = 0
              THEN /\ authState' = [authState EXCEPT !.account = a]
                   /\ UNCHANGED <<sessionExpireTimestamp, pendingAuthReq>>
                   /\ last' = Did("authenticate", "throw", 0, "none", "none")
              ELSE /\ authState' = [authState EXCEPT !.account = a,
                                                   !.isAuthAttempted = TRUE]
                   /\ sessionExpireTimestamp' = t + SessionDuration
                   /\ pendingAuthReq' = Append(pendingAuthReq,
                        startAuthentication(
                          [authState EXCEPT !.account = a], t))
                   /\ last' = Did("authenticate", "auth", 0, "none", "none")
       ELSE /\ authState' = [authState EXCEPT !.account = a]
            /\ UNCHANGED <<sessionExpireTimestamp, pendingAuthReq>>
            /\ last' = Did("authenticate", "noauth", 0, "none", "none")
  /\ UNCHANGED <<socket, zombies, connectionStatus, messageQueue,
                 balances, isTransferring, storedKey, storedJWT, wire,
                 pendingSig, pendingBal, pendingTransfer>>

\* startAuthentication() after its await: createAuthRequestMessage returned
\* the payload for the captured authParams, which goes to sendMessage.
startAuthenticationSend(i) ==
  /\ UNCHANGED <<channels, pendingChan, heldChannels>>
  /\ UNCHANGED swapVars
  /\ i \in 1..Len(pendingAuthReq)
  /\ LET p == pendingAuthReq[i]
         f == Frame("auth_request", p.acct, p.key, p.exp, 0, 0, 0)
     IN /\ wire' = sendMessageWire(wire, f)
        /\ messageQueue' = sendMessageQueue(messageQueue, f)
  /\ pendingAuthReq' = RemoveAt(pendingAuthReq, i)
  /\ last' = Did("startAuthentication", "sent", 1, "none", "none")
  /\ UNCHANGED <<socket, zombies, connectionStatus, authState,
                 walletClient, sessionExpireTimestamp, balances,
                 isTransferring, storedKey, storedJWT, pendingSig,
                 pendingBal, pendingTransfer>>

\* startAuthentication() after its await: createAuthRequestMessage threw.
startAuthenticationThrow(i) ==
  /\ UNCHANGED <<channels, pendingChan, heldChannels>>
  /\ UNCHANGED swapVars
  /\ i \in 1..Len(pendingAuthReq)
  /\ pendingAuthReq' = RemoveAt(pendingAuthReq, i)
  /\ authState' = [authState EXCEPT !.isAuthAttempted = FALSE]
  /\ last' = Did("startAuthentication", "throw", 0, "none",
                 "Authentication failed")
  /\ UNCHANGED <<socket, zombies, connectionStatus, messageQueue,
                 walletClient, sessionExpireTimestamp, balances,
                 isTransferring, storedKey, storedJWT, wire, pendingSig,
                 pendingBal, pendingTransfer>>

\* The entries a refreshChannelBalances() in progress still has to visit
\* (todo, the first being the one it is reading), after the record of
\* channel id in this.channels was assigned next in place: an entry holds
\* the record object, so it sees the change while `shared` is set.
SnapshotsWriteThrough(pending, id, next) ==
  [k \in 1..Len(pending) |->
     [pending[k] EXCEPT !.todo =
        [j \in 1..Len(pending[k].todo) |->
           IF pending[k].todo[j].shared /\ pending[k].todo[j].channelId = id
             THEN [pending[k].todo[j] EXCEPT !.isOpen = next.isOpen]
             ELSE pending[k].todo[j]]]]

\* The same, after this.channels[id] was given a new object.
SnapshotsDetach(pending, id) ==
  [k \in 1..Len(pending) |->
     [pending[k] EXCEPT !.todo =
        [j \in 1..Len(pending[k].todo) |->
           IF pending[k].todo[j].channelId = id
             THEN [pending[k].todo[j] EXCEPT !.shared = FALSE]
             ELSE pending[k].todo[j]]]]

\* The same, after this.channels was given a new, empty table.
SnapshotsDetachAll(pending) ==
  [k \in 1..Len(pending) |->
     [pending[k] EXCEPT !.todo =
        [j \in 1..Len(pending[k].todo) |->
           [pending[k].todo[j] EXCEPT !.shared = FALSE]]]]

\* logout().
logout ==
  /\ UNCHANGED swapVars
  /\ CanGenerate
  /\ channels' = {}
  /\ pendingChan' = SnapshotsDetachAll(pendingChan)
  /\ UNCHANGED heldChannels
  /\ storedJWT' = FALSE
  /\ authState' = [isAuthenticated |-> FALSE, isAuthAttempted |-> FALSE,
                   sessionKey |-> initializeSessionKey(0), account |-> 0]
  /\ storedKey' = initializeSessionKey(0)
  /\ walletClient' = 0
  /\ balances' = 0
  /\ isTransferring' = FALSE
  /\ last' = notifyChannelListeners(Did("logout", "", 0, "none", "none"))
  /\ UNCHANGED <<socket, zombies, connectionStatus, messageQueue,
                 sessionExpireTimestamp, wire, pendingAuthReq, pendingSig,
                 pendingBal, pendingTransfer>>

\* ------------------------------------------------------------ inbound frames
\* The server answers the requests of the open socket in the order it got
\* them; every action below is socket.onmessage -> handleMessage for the
\* frame that answers the oldest unanswered request, wire[1].
Answering(kinds) ==
  /\ socket = OPEN
  /\ wire # << >>
  /\ wire[1].kind \in kinds

\* case RPCMethod.AuthChallenge: handleAuthChallenge() up to its await.
handleAuthChallenge ==
  /\ UNCHANGED <<channels, pendingChan, heldChannels>>
  /\ UNCHANGED swapVars
  /\ Answering({"auth_request"})
  /\ wire' = Tail(wire)
  /\ IF walletClient = 0 \/ authState.sessionKey = 0
        \/ authState.account = 0 \/ sessionExpireTimestamp = 0
       THEN /\ UNCHANGED pendingSig
            /\ last' = Did("handleAuthChallenge", "throw", 0, "none",
                           "Missing authentication prerequisites")
       ELSE /\ pendingSig' = Append(pendingSig,
                 [app |-> walletClient, key |-> authState.sessionKey,
                  exp |-> sessionExpireTimestamp, racct |-> wire[1].acct,
                  rkey |-> wire[1].key, rexp |-> wire[1].exp])
            /\ last' = Did("handleAuthChallenge", "signing", 0, "none",
                           "none")
  /\ UNCHANGED <<socket, zombies, connectionStatus, messageQueue,
                 authState, walletClient, sessionExpireTimestamp, balances,
                 isTransferring, storedKey, storedJWT, pendingAuthReq,
                 pendingBal, pendingTransfer>>

\* handleAuthChallenge() after its await: the wallet signed, the verify
\* frame goes to sendMessage.
handleAuthChallengeSend(i) ==
  /\ UNCHANGED <<channels, pendingChan, heldChannels>>
  /\ UNCHANGED swapVars
  /\ i \in 1..Len(pendingSig)
  /\ LET p == pendingSig[i]
         f == Frame("auth_verify", p.app, p.key, p.exp,
                    p.racct, p.rkey, p.rexp)
     IN /\ wire' = sendMessageWire(wire, f)
        /\ messageQueue' = sendMessageQueue(messageQueue, f)
  /\ pendingSig' = RemoveAt(pendingSig, i)
  /\ last' = Did("handleAuthChallenge", "sent", 1, "none", "none")
  /\ UNCHANGED <<socket, zombies, connectionStatus, authState,
                 walletClient, sessionExpireTimestamp, balances,
                 isTransferring, storedKey, storedJWT, pendingAuthReq,
                 pendingBal, pendingTransfer>>

\* A catch block that leaves the flag set.
handleAuthChallengeCatchKeepsFlag == TRUE

\* isAuthAttempted after the catch block of handleAuthChallenge().
handleAuthChallengeCatch == FALSE

\* handleAuthChallenge() after its await: the signature was rejected.
handleAuthChallengeReject(i) ==
  /\ UNCHANGED <<channels, pendingChan, heldChannels>>
  /\ UNCHANGED swapVars
  /\ i \in 1..Len(pendingSig)
  /\ pendingSig' = RemoveAt(pendingSig, i)
  /\ authState' = [authState EXCEPT
       !.isAuthAttempted = handleAuthChallengeCatch]
  /\ last' = Did("handleAuthChallenge", "rejected", 0, "none",
                 "Signature rejected. Please try again.")
  /\ UNCHANGED <<socket, zombies, connectionStatus, messageQueue,
                 walletClient, sessionExpireTimestamp, balances,
                 isTransferring, storedKey, storedJWT, wire, pendingAuthReq,
                 pendingBal, pendingTransfer>>

\* fetchBalances() up to its await, on the given auth state: the entry
\* appended to pendingBal, or none when it throws "Not authenticated".
fetchBalances(as) ==
  IF ~as.isAuthenticated \/ as.sessionKey = 0 \/ as.account = 0
    THEN << >>
    ELSE << [acct |-> as.account, key |-> as.sessionKey] >>

\* case RPCMethod.AuthVerify with params.success: handleAuthSuccess().
handleAuthSuccess(jwt) ==
  /\ UNCHANGED <<channels, pendingChan, heldChannels>>
  /\ UNCHANGED swapVars
  /\ Answering({"auth_verify"})
  /\ wire' = Tail(wire)
  /\ authState' = [authState EXCEPT !.isAuthenticated = TRUE]
  /\ storedJWT' = IF jwt THEN TRUE ELSE storedJWT
  /\ pendingBal' = pendingBal \o fetchBalances(authState')
  /\ last' = Did("handleAuthSuccess",
                 IF fetchBalances(authState') = << >> THEN "nofetch"
                                                      ELSE "fetch",
                 0, "none", "none")
  /\ UNCHANGED <<socket, zombies, connectionStatus, messageQueue,
                 walletClient, sessionExpireTimestamp, balances,
                 isTransferring, storedKey, pendingAuthReq, pendingSig,
                 pendingTransfer>>

\* case RPCMethod.AuthVerify without params.success: nothing is done.
handleAuthVerifyFailure ==
  /\ UNCHANGED <<channels, pendingChan, heldChannels>>
  /\ UNCHANGED swapVars
  /\ Answering({"auth_verify"})
  /\ wire' = Tail(wire)
  /\ last' = Did("handleAuthVerifyFailure", "", 0, "none", "none")
  /\ UNCHANGED <<socket, zombies, connectionStatus, messageQueue,
                 authState, walletClient, sessionExpireTimestamp, balances,
                 isTransferring, storedKey, storedJWT, pendingAuthReq,
                 pendingSig, pendingBal, pendingTransfer>>

\* fetchBalances() after its await: the signed request goes to sendMessage.
fetchBalancesSend(i) ==
  /\ UNCHANGED <<channels, pendingChan, heldChannels>>
  /\ UNCHANGED swapVars
  /\ i \in 1..Len(pendingBal)
  /\ LET p == pendingBal[i]
         f == Frame("get_ledger_balances", p.acct, p.key, 0, 0, 0, 0)
     IN /\ wire' = sendMessageWire(wire, f)
        /\ messageQueue' = sendMessageQueue(messageQueue, f)
  /\ pendingBal' = RemoveAt(pendingBal, i)
  /\ last' = Did("fetchBalances", "sent", 1, "none", "none")
  /\ UNCHANGED <<socket, zombies, connectionStatus, authState,
                 walletClient, sessionExpireTimestamp, balances,
                 isTransferring, storedKey, storedJWT, pendingAuthReq,
                 pendingSig, pendingTransfer>>

\* fetchBalances() after its await: building the request threw.
fetchBalancesThrow(i) ==
  /\ UNCHANGED <<channels, pendingChan, heldChannels>>
  /\ UNCHANGED swapVars
  /\ i \in 1..Len(pendingBal)
  /\ pendingBal' = RemoveAt(pendingBal, i)
  /\ last' = Did("fetchBalances", "throw", 0, "none",
                 "Failed to fetch balances")
  /\ UNCHANGED <<socket, zombies, connectionStatus, messageQueue,
                 authState, walletClient, sessionExpireTimestamp, balances,
                 isTransferring, storedKey, storedJWT, wire, pendingAuthReq,
                 pendingSig, pendingTransfer>>

\* case RPCMethod.GetLedgerBalances: handleBalanceResponse().
handleBalanceResponse(t) ==
  /\ UNCHANGED <<channels, pendingChan, heldChannels>>
  /\ UNCHANGED swapVars
  /\ Answering({"get_ledger_balances"})
  /\ wire' = Tail(wire)
  /\ balances' = t
  /\ last' = Did("handleBalanceResponse", "", 0, "none", "none")
  /\ UNCHANGED <<socket, zombies, connectionStatus, messageQueue,
                 authState, walletClient, sessionExpireTimestamp,
                 isTransferring, storedKey, storedJWT, pendingAuthReq,
                 pendingSig, pendingBal, pendingTransfer>>

\* ---------------------------------------------------------------- transfers
\* transfer() up to its await.
transfer ==
  /\ UNCHANGED <<channels, pendingChan, heldChannels>>
  /\ UNCHANGED swapVars
  /\ IF ~authState.isAuthenticated \/ authState.sessionKey = 0
       THEN /\ UNCHANGED <<isTransferring, pendingTransfer>>
            /\ last' = Did("transfer", "Not authenticated", 0, "none",
                           "none")
       ELSE IF isTransferring
         THEN /\ UNCHANGED <<isTransferring, pendingTransfer>>
              /\ last' = Did("transfer", "Transfer already in progress", 0,
                             "none", "none")
         ELSE /\ isTransferring' = TRUE
              /\ pendingTransfer' = Append(pendingTransfer,
                                           [key |-> authState.sessionKey])
              /\ last' = Did("transfer", "signing", 0, "none", "none")
  /\ UNCHANGED <<socket, zombies, connectionStatus, messageQueue,
                 authState, walletClient, sessionExpireTimestamp, balances,
                 storedKey, storedJWT, wire, pendingAuthReq, pendingSig,
                 pendingBal>>

\* transfer() after its await: the signed request goes to sendMessage and
\* the call returns {success: true}.
transferSend(i) ==
  /\ UNCHANGED <<channels, pendingChan, heldChannels>>
  /\ UNCHANGED swapVars
  /\ i \in 1..Len(pendingTransfer)
  /\ LET f == Frame("transfer", 0, pendingTransfer[i].key, 0, 0, 0, 0)
     IN /\ wire' = sendMessageWire(wire, f)
        /\ messageQueue' = sendMessageQueue(messageQueue, f)
  /\ pendingTransfer' = RemoveAt(pendingTransfer, i)
  /\ last' = Did("transfer", "success", 1, "none", "none")
  /\ UNCHANGED <<socket, zombies, connectionStatus, authState,
                 walletClient, sessionExpireTimestamp, balances,
                 isTransferring, storedKey, storedJWT, pendingAuthReq,
                 pendingSig, pendingBal>>

\* A catch block that leaves the flag set.
transferCatchKeepsFlag == TRUE

\* The flag after the catch block of transfer().
transferCatch == FALSE

\* transfer() after its await: createTransferMessage threw.
transferThrow(i) ==
  /\ UNCHANGED <<channels, pendingChan, heldChannels>>
  /\ UNCHANGED swapVars
  /\ i \in 1..Len(pendingTransfer)
  /\ pendingTransfer' = RemoveAt(pendingTransfer, i)
  /\ isTransferring' = transferCatch
  /\ last' = Did("transfer", "Transfer failed", 0, "fail", "none")
  /\ UNCHANGED <<socket, zombies, connectionStatus, messageQueue,
                 authState, walletClient, sessionExpireTimestamp, balances,
                 storedKey, storedJWT, wire, pendingAuthReq, pendingSig,
                 pendingBal>>

\* case RPCMethod.Transfer: handleTransferResponse().
handleTransferResponse ==
  /\ UNCHANGED <<channels, pendingChan, heldChannels>>
  /\ UNCHANGED swapVars
  /\ Answering({"transfer"})
  /\ wire' = Tail(wire)
  /\ isTransferring' = FALSE
  /\ last' = Did("handleTransferResponse", "", 0, "ok", "none")
  /\ UNCHANGED <<socket, zombies, connectionStatus, messageQueue,
                 authState, walletClient, sessionExpireTimestamp, balances,
                 storedKey, storedJWT, pendingAuthReq, pendingSig,
                 pendingBal, pendingTransfer>>

\* case RPCMethod.Error: handleError(), for an error frame that answers
\* the oldest unanswered request, of any kind.
handleError ==
  /\ UNCHANGED <<channels, pendingChan, heldChannels>>
  /\ UNCHANGED swapVars
  /\ Answering({"auth_request", "auth_verify", "get_ledger_balances",
                "transfer"})
  /\ wire' = Tail(wire)
  /\ IF isTransferring
       THEN /\ isTransferring' = FALSE
            /\ last' = Did("handleError", wire[1].kind, 0, "fail", "error")
            /\ UNCHANGED <<authState, storedKey, storedJWT>>
       ELSE /\ CanGenerate
            /\ storedJWT' = FALSE
            /\ authState' = [authState EXCEPT
                 !.isAuthenticated = FALSE, !.isAuthAttempted = FALSE,
                 !.sessionKey = initializeSessionKey(0)]
            /\ storedKey' = initializeSessionKey(0)
            /\ last' = Did("handleError", wire[1].kind, 0, "none", "error")
            /\ UNCHANGED isTransferring
  /\ UNCHANGED <<socket, zombies, connectionStatus, messageQueue,
                 walletClient, sessionExpireTimestamp, balances,
                 pendingAuthReq, pendingSig, pendingBal, pendingTransfer>>

\* ------------------------------------------------------- calls that return
\* this.activeSwapSession === null
NoSwapSession ==
  [sessionId |-> 0, status |-> "", swapId |-> 0, channelId |-> << >>]

\* A guard that accepts any session id once a session is tracked.
TrackedSessionAny(session, sessionId) == session # NoSwapSession

\* The guard of createSwapChannel() and of sendSwapRequest(): a session is
\* tracked and it has this id.
TrackedSession(session, sessionId) ==
  session # NoSwapSession /\ session.sessionId = sessionId

\* Every failure under the label of step 1.
StepLabelOfFirst(op) == "Session creation failed"

\* The words executeCompleteSwap() puts before the error of the step that
\* failed.
StepLabel(op) ==
  IF op = "createSwapSession" THEN "Session creation failed"
  ELSE IF op = "createSwapChannel" THEN "Channel creation failed"
  ELSE "Swap execution failed"

\* A call returns a failure, having handed `sent` frames to sendMessage: to
\* the application, or (flow) to executeCompleteSwap(), which returns it
\* under the label of the step.
Returned(flow, op, res, sent) ==
  IF flow THEN Did("executeCompleteSwap", StepLabel(op), sent, "none", "none")
          ELSE Did(op, res, sent, "none", "none")

\* The operation a channel call returns to: createSwapChannel() when it made
\* the call (swap is its session id), else the application.
CallOp(call) == IF call.swap # 0 THEN "createSwapChannel" ELSE call.op

\* ----------------------------------------------------------------- channels
\* A ChannelState: channelId is `${tokenAddress}-${account}`, balance the
\* amount as formatUnits() renders it, digit for digit.
ChannelState(tok, acct, amt) ==
  [channelId |-> <<tok, acct>>, tokenAddress |-> tok, isOpen |-> TRUE,
   balance |-> amt]

\* An assignment that adds the record and keeps the one it should replace.
SetChannelKeepsOld(chs, state) == chs \cup {state}

\* this.channels[channelId] = state
SetChannel(chs, state) ==
  {c \in chs : c.channelId # state.channelId} \cup {state}

\* parseFloat(): the nearest number with MantissaBits significant binary
\* digits, a tie going to the even mantissa.
parseFloat(x) ==
  IF x < 2 ^ MantissaBits
    THEN x
    ELSE LET u == CHOOSE p \in {2 ^ k : k \in 1..16} :
                    /\ x \div p < 2 ^ MantissaBits
                    /\ x \div p >= 2 ^ (MantissaBits - 1)
             lo == (x \div u) * u
             hi == lo + u
         IN IF x - lo < hi - x THEN lo
            ELSE IF x - lo > hi - x THEN hi
            ELSE IF (lo \div u) % 2 = 0 THEN lo ELSE hi

\* The record of a channel after a confirmed withdrawal of amt, as
\* closeChannel() rewrites it.
Withdrawn(c, amt) ==
  LET currentBalance == parseFloat(c.balance)
      withdrawAmount == parseFloat(amt)
  IN IF currentBalance <= withdrawAmount
       THEN [c EXCEPT !.isOpen = FALSE, !.balance = 0]
       ELSE [c EXCEPT !.balance = parseFloat(currentBalance - withdrawAmount)]

\* The records the application holds from getChannels(), after the record
\* of channel id in this.channels was assigned next in place.  A held record
\* is the object this.channels holds while `shared` is set and the channel
\* is in the table.
WriteThrough(held, chs, id, next) ==
  {IF h.shared /\ h.now.channelId = id /\ (\E c \in chs : c.channelId = id)
     THEN [h EXCEPT !.now = next] ELSE h : h \in held}

\* The same, after this.channels[id] was given a new object.
Detach(held, id) ==
  {IF h.now.channelId = id THEN [h EXCEPT !.shared = FALSE] ELSE h :
     h \in held}

\* openChannel({tokenAddress, amount}) up to its first await, the read of
\* the allowance.
openChannel(tok, amt) ==
  /\ UNCHANGED swapVars
  /\ IF walletClient = 0 \/ authState.account = 0
       THEN /\ UNCHANGED pendingChan
            /\ last' = Did("openChannel", "Wallet not connected", 0, "none",
                           "none")
       ELSE /\ pendingChan' = Append(pendingChan,
                 [op |-> "openChannel", stage |-> "allowance", tok |-> tok,
                  amt |-> amt, acct |-> authState.account,
                  allowance |-> NULL, swap |-> 0, flow |-> FALSE,
                  todo |-> << >>])
            /\ last' = Did("openChannel", "allowance", 0, "none", "none")
  /\ UNCHANGED <<socket, zombies, connectionStatus, messageQueue, authState,
                 walletClient, sessionExpireTimestamp, balances,
                 isTransferring, storedKey, storedJWT, wire, pendingAuthReq,
                 pendingSig, pendingBal, pendingTransfer, channels,
                 heldChannels>>

\* depositToChannel(tokenAddress, amount) up to its first await, the read
\* of the allowance.
depositToChannel(tok, amt) ==
  /\ UNCHANGED swapVars
  /\ IF walletClient = 0 \/ authState.account = 0
       THEN /\ UNCHANGED pendingChan
            /\ last' = Did("depositToChannel", "Wallet not connected", 0,
                           "none", "none")
       ELSE IF ~authState.isAuthenticated \/ authState.sessionKey = 0
         THEN /\ UNCHANGED pendingChan
              /\ last' = Did("depositToChannel",
                             "Not authenticated with Yellow Network", 0,
                             "none", "none")
         ELSE /\ pendingChan' = Append(pendingChan,
                   [op |-> "depositToChannel", stage |-> "allowance",
                    tok |-> tok, amt |-> amt, acct |-> authState.account,
                    allowance |-> NULL, swap |-> 0, flow |-> FALSE,
                  todo |-> << >>])
              /\ last' = Did("depositToChannel", "allowance", 0, "none",
                             "none")
  /\ UNCHANGED <<socket, zombies, connectionStatus, messageQueue, authState,
                 walletClient, sessionExpireTimestamp, balances,
                 isTransferring, storedKey, storedJWT, wire, pendingAuthReq,
                 pendingSig, pendingBal, pendingTransfer, channels,
                 heldChannels>>

\* closeChannel({tokenAddress, amount}) up to its first await: the withdraw
\* transaction is requested from the wallet.
closeChannel(tok, amt) ==
  /\ UNCHANGED swapVars
  /\ IF walletClient = 0 \/ authState.account = 0
       THEN /\ UNCHANGED pendingChan
            /\ last' = Did("closeChannel", "Wallet not connected", 0, "none",
                           "none")
       ELSE /\ pendingChan' = Append(pendingChan,
                 [op |-> "closeChannel", stage |-> "withdraw", tok |-> tok,
                  amt |-> amt, acct |-> authState.account,
                  allowance |-> NULL, swap |-> 0, flow |-> FALSE,
                  todo |-> << >>])
            /\ last' = Did("closeChannel", "withdraw", 0, "none", "none")
  /\ UNCHANGED <<socket, zombies, connectionStatus, messageQueue, authState,
                 walletClient, sessionExpireTimestamp, balances,
                 isTransferring, storedKey, storedJWT, wire, pendingAuthReq,
                 pendingSig, pendingBal, pendingTransfer, channels,
                 heldChannels>>

\* this.walletClient.writeContract(...) of call i, which takes it to the
\* given stage: a TypeError, caught, when walletClient has become null.
writeContract(i, call) ==
  IF walletClient = 0
    THEN /\ pendingChan' = RemoveAt(pendingChan, i)
         /\ last' = Returned(call.flow, CallOp(call), "TypeError", 0)
    ELSE /\ pendingChan' = [pendingChan EXCEPT ![i] = call]
         /\ last' = Did(call.op, call.stage, 0, "none", "none")

\* An allowance test that never asks for an approval.
NeedsApprovalNever(allowance, amount) == FALSE

\* if (allowance < amount)
NeedsApproval(allowance, amount) == allowance < amount

\* openChannel() or depositToChannel() resumes with the allowance: the
\* approval is requested when it is below the amount, else the deposit.
openChannelAllowance(i, allowance) ==
  /\ UNCHANGED swapVars
  /\ i \in 1..Len(pendingChan)
  /\ pendingChan[i].stage = "allowance"
  /\ writeContract(i, [pendingChan[i] EXCEPT
       !.allowance = allowance,
       !.stage = IF NeedsApproval(allowance, pendingChan[i].amt)
                   THEN "approve" ELSE "deposit"])
  /\ UNCHANGED <<socket, zombies, connectionStatus, messageQueue, authState,
                 walletClient, sessionExpireTimestamp, balances,
                 isTransferring, storedKey, storedJWT, wire, pendingAuthReq,
                 pendingSig, pendingBal, pendingTransfer, channels,
                 heldChannels>>

\* A channel operation resumes with the hash of a transaction the wallet
\* sent, and waits for its receipt.
openChannelHash(i) ==
  /\ UNCHANGED swapVars
  /\ i \in 1..Len(pendingChan)
  /\ pendingChan[i].stage \in {"approve", "deposit", "withdraw"}
  /\ pendingChan' = [pendingChan EXCEPT ![i].stage =
       IF pendingChan[i].stage = "approve" THEN "approveReceipt"
       ELSE IF pendingChan[i].stage = "deposit" THEN "depositReceipt"
       ELSE "withdrawReceipt"]
  /\ last' = Did(pendingChan[i].op, pendingChan'[i].stage, 0, "none", "none")
  /\ UNCHANGED <<socket, zombies, connectionStatus, messageQueue, authState,
                 walletClient, sessionExpireTimestamp, balances,
                 isTransferring, storedKey, storedJWT, wire, pendingAuthReq,
                 pendingSig, pendingBal, pendingTransfer, channels,
                 heldChannels>>

\* openChannel() or depositToChannel() resumes with the receipt of the
\* approval: the deposit is requested.
openChannelApproved(i) ==
  /\ UNCHANGED swapVars
  /\ i \in 1..Len(pendingChan)
  /\ pendingChan[i].stage = "approveReceipt"
  /\ writeContract(i, [pendingChan[i] EXCEPT !.stage = "deposit"])
  /\ UNCHANGED <<socket, zombies, connectionStatus, messageQueue, authState,
                 walletClient, sessionExpireTimestamp, balances,
                 isTransferring, storedKey, storedJWT, wire, pendingAuthReq,
                 pendingSig, pendingBal, pendingTransfer, channels,
                 heldChannels>>

\* depositToChannel() has returned success to the call that made it.  To
\* createSwapChannel(): the session tracked now gets the channel and the
\* status "channel_created", and signSessionData() is started; it throws
\* without a wallet or an account, and the catch block returns the failure.
createSwapChannelDeposited(call, state) ==
  IF call.swap = 0
    THEN /\ UNCHANGED swapVars
         /\ last' = notifyChannelListeners(
                       Did(call.op, "success", 0, "none", "none"))
    ELSE /\ activeSwapSession' = [activeSwapSession EXCEPT
              !.channelId = state.channelId, !.status = "channel_created"]
         /\ UNCHANGED swapWaits
         /\ IF walletClient = 0 \/ authState.account = 0
              THEN /\ UNCHANGED pendingSwap
                   /\ last' = notifyChannelListeners(
                        Returned(call.flow, "createSwapChannel",
                                 "Wallet not available for signing", 0))
              ELSE /\ pendingSwap' = Append(pendingSwap,
                        [op |-> "createSwapChannel", sessionId |-> call.swap,
                         swapId |-> 0, acct |-> authState.account,
                         flow |-> call.flow, tok |-> call.tok,
                         amt |-> call.amt])
                   /\ last' = notifyChannelListeners(
                        Did("createSwapChannel", "signing", 0, "none",
                            "none"))

\* openChannel() or depositToChannel() resumes with the receipt of the
\* deposit: a new record is stored, by openChannel() under the account the
\* state holds now, by depositToChannel() under the account it started with.
openChannelDeposited(i) ==
  /\ i \in 1..Len(pendingChan)
  /\ pendingChan[i].stage = "depositReceipt"
  /\ LET call == pendingChan[i]
         account == IF call.op = "openChannel"
                      THEN authState.account ELSE call.acct
         state == ChannelState(call.tok, account, call.amt)
     IN /\ channels' = SetChannel(channels, state)
        /\ heldChannels' = Detach(heldChannels, state.channelId)
        /\ createSwapChannelDeposited(call, state)
        /\ pendingChan' =
             SnapshotsDetach(RemoveAt(pendingChan, i), state.channelId)
  /\ UNCHANGED <<socket, zombies, connectionStatus, messageQueue, authState,
                 walletClient, sessionExpireTimestamp, balances,
                 isTransferring, storedKey, storedJWT, wire, pendingAuthReq,
                 pendingSig, pendingBal, pendingTransfer>>

\* closeChannel() resumes with the receipt of the withdrawal: the record of
\* the channel, if there is one under the account the state holds now, is
\* rewritten in place.
closeChannelWithdrawn(i) ==
  /\ UNCHANGED swapVars
  /\ i \in 1..Len(pendingChan)
  /\ pendingChan[i].stage = "withdrawReceipt"
  /\ LET id == <<pendingChan[i].tok, authState.account>>
     IN IF \E c \in channels : c.channelId = id
          THEN LET c == CHOOSE c \in channels : c.channelId = id
                   next == Withdrawn(c, pendingChan[i].amt)
               IN /\ channels' = SetChannel(channels, next)
                  /\ heldChannels' =
                       WriteThrough(heldChannels, channels, id, next)
                  /\ pendingChan' = SnapshotsWriteThrough(
                       RemoveAt(pendingChan, i), id, next)
          ELSE /\ UNCHANGED <<channels, heldChannels>>
               /\ pendingChan' = RemoveAt(pendingChan, i)
  /\ last' = notifyChannelListeners(
                Did("closeChannel", "success", 0, "none", "none"))
  /\ UNCHANGED <<socket, zombies, connectionStatus, messageQueue, authState,
                 walletClient, sessionExpireTimestamp, balances,
                 isTransferring, storedKey, storedJWT, wire, pendingAuthReq,
                 pendingSig, pendingBal, pendingTransfer>>

\* A catch block after which the call goes on to the deposit.
openChannelCatchGoesOn(pending, i) == [pending EXCEPT ![i].stage = "deposit"]

\* The calls in progress after the catch block of call i returned
\* {success: false, error}: the call is over.
openChannelCatch(pending, i) == RemoveAt(pending, i)

\* A channel operation resumes with a rejection (the read failed, the user
\* rejected, the transaction reverted): the catch block.
openChannelThrow(i) ==
  /\ UNCHANGED swapVars
  /\ i \in 1..Len(pendingChan)
  /\ pendingChan[i].op # "refreshChannelBalances"
  /\ pendingChan' = openChannelCatch(pendingChan, i)
  /\ last' = Returned(pendingChan[i].flow, CallOp(pendingChan[i]), "failed", 0)
  /\ UNCHANGED <<socket, zombies, connectionStatus, messageQueue, authState,
                 walletClient, sessionExpireTimestamp, balances,
                 isTransferring, storedKey, storedJWT, wire, pendingAuthReq,
                 pendingSig, pendingBal, pendingTransfer, channels,
                 heldChannels>>

\* Object.entries(this.channels): the records of the table, in an order its
\* keys can have been inserted in.
Entries(chs) ==
  {e \in [1..Cardinality(chs) -> chs] :
     \A i, j \in 1..Cardinality(chs) : i # j => e[i] # e[j]}

\* The entries the loop of refreshChannelBalances() has left when it comes
\* to its next await: those whose `if (channel.isOpen)` fails are passed.
RECURSIVE SkipClosed(_)
SkipClosed(todo) ==
  IF todo = << >> \/ todo[1].isOpen THEN todo ELSE SkipClosed(Tail(todo))

\* getChannelBalance(): the balance read for the user, and "0" when there
\* is no user or the read fails (read is NULL).
getChannelBalance(user, read) == IF user = 0 \/ read = NULL THEN 0 ELSE read

\* The loop of refreshChannelBalances() over the entries todo, up to its
\* next await (the read of the first open entry) or to its end, where the
\* subscribers are notified; pending are the other calls in progress.
refreshChannelBalancesLoop(pending, todo) ==
  LET rest == SkipClosed(todo)
  IN IF rest = << >>
       THEN /\ pendingChan' = pending
            /\ last' = notifyChannelListeners(
                          Did("refreshChannelBalances", "done", 0, "none",
                              "none"))
       ELSE /\ pendingChan' = Append(pending,
                 [op |-> "refreshChannelBalances", stage |-> "read",
                  tok |-> rest[1].tokenAddress, amt |-> 0,
                  acct |-> authState.account, allowance |-> NULL,
                  swap |-> 0, flow |-> FALSE, todo |-> rest])
            /\ last' = Did("refreshChannelBalances", "read", 0, "none",
                           "none")

\* refreshChannelBalances() up to its first await, the table's entries
\* being e.
refreshChannelBalances(e) ==
  /\ UNCHANGED swapVars
  /\ e \in Entries(channels)
  /\ IF authState.account = 0
       THEN /\ UNCHANGED pendingChan
            /\ last' = Did("refreshChannelBalances", "no account", 0,
                           "none", "none")
       ELSE refreshChannelBalancesLoop(pendingChan,
              [k \in 1..Len(e) |->
                 [channelId |-> e[k].channelId,
                  tokenAddress |-> e[k].tokenAddress,
                  isOpen |-> e[k].isOpen, shared |-> TRUE]])
  /\ UNCHANGED <<socket, zombies, connectionStatus, messageQueue, authState,
                 walletClient, sessionExpireTimestamp, balances,
                 isTransferring, storedKey, storedJWT, wire, pendingAuthReq,
                 pendingSig, pendingBal, pendingTransfer, channels,
                 heldChannels>>

\* refreshChannelBalances() resumes with what getChannelBalance() returns:
\* it is assigned to the record the table holds now under the entry's key
\* (a TypeError, caught by the method, when there is none), and the loop
\* goes on.
refreshChannelBalancesRead(i, read) ==
  /\ UNCHANGED swapVars
  /\ i \in 1..Len(pendingChan)
  /\ pendingChan[i].op = "refreshChannelBalances"
  /\ LET id == pendingChan[i].todo[1].channelId
     IN IF \E c \in channels : c.channelId = id
          THEN LET c == CHOOSE c \in channels : c.channelId = id
                   next == [c EXCEPT !.balance =
                              getChannelBalance(pendingChan[i].acct, read)]
               IN /\ channels' = SetChannel(channels, next)
                  /\ heldChannels' =
                       WriteThrough(heldChannels, channels, id, next)
                  /\ refreshChannelBalancesLoop(
                       RemoveAt(pendingChan, i), Tail(pendingChan[i].todo))
          ELSE /\ UNCHANGED <<channels, heldChannels>>
               /\ pendingChan' = RemoveAt(pendingChan, i)
               /\ last' = Did("refreshChannelBalances", "TypeError", 0,
                              "none", "none")
  /\ UNCHANGED <<socket, zombies, connectionStatus, messageQueue, authState,
                 walletClient, sessionExpireTimestamp, balances,
                 isTransferring, storedKey, storedJWT, wire, pendingAuthReq,
                 pendingSig, pendingBal, pendingTransfer>>

\* getChannels(): the application keeps the table it returns, a new table
\* holding the records of this.channels themselves.
getChannels ==
  /\ UNCHANGED swapVars
  /\ heldChannels' = {[then |-> c, now |-> c, shared |-> TRUE] :
                        c \in channels}
  /\ last' = Did("getChannels", "", 0, "none", "none")
  /\ UNCHANGED <<socket, zombies, connectionStatus, messageQueue, authState,
                 walletClient, sessionExpireTimestamp, balances,
                 isTransferring, storedKey, storedJWT, wire, pendingAuthReq,
                 pendingSig, pendingBal, pendingTransfer, channels,
                 pendingChan>>

\* The application assigns balance "0" to a record of a table it got from
\* getChannels().
writeHeldChannel(id) ==
  /\ UNCHANGED swapVars
  /\ \E h \in heldChannels :
       /\ h.now.channelId = id
       /\ h.now.balance # 0
       /\ LET next == [h.now EXCEPT !.balance = 0]
          IN /\ heldChannels' = (heldChannels \ {h})
                                  \cup {[h EXCEPT !.now = next]}
             /\ channels' =
                  IF h.shared /\ (\E c \in channels : c.channelId = id)
                    THEN SetChannel(channels, next) ELSE channels
  /\ last' = Did("application", "write", 0, "none", "none")
  /\ UNCHANGED <<socket, zombies, connectionStatus, messageQueue, authState,
                 walletClient, sessionExpireTimestamp, balances,
                 isTransferring, storedKey, storedJWT, wire, pendingAuthReq,
                 pendingSig, pendingBal, pendingTransfer, pendingChan>>

\* -------------------------------------------------------------------- swaps
\* `swap-${sessionId}-${Date.now()}`
SwapId(sessionId, t) == sessionId * 10 + t

\* A swap frame: payload.sessionId travels in rkey, payload.swapId in rexp.
SwapFrame(kind, acct, sessionId, swapId) ==
  Frame(kind, acct, 0, 0, 0, sessionId, swapId)

\* Waits whose timer has fired or was cleared and whose filter is in no
\* handler any more are gone.
LiveWaits(ws) == SelectSeq(ws, LAMBDA w : w.waiting \/ w.installed)

\* createSwapSession() up to its await: the guard, then signSessionData()
\* up to the wallet's signTypedData.  Called by the application or (flow) as
\* step 1 of executeCompleteSwap(), which will go on with tok and amt.
createSwapSessionCall(sessionId, tok, amt, flow) ==
  IF ~authState.isAuthenticated \/ authState.sessionKey = 0
    THEN /\ UNCHANGED pendingSwap
         /\ last' = Returned(flow, "createSwapSession", "Not authenticated",
                             0)
    ELSE IF walletClient = 0 \/ authState.account = 0
      THEN /\ UNCHANGED pendingSwap
           /\ last' = Returned(flow, "createSwapSession",
                               "Wallet not available for signing", 0)
      ELSE /\ pendingSwap' = Append(pendingSwap,
                [op |-> "createSwapSession", sessionId |-> sessionId,
                 swapId |-> 0, acct |-> authState.account, flow |-> flow,
                 tok |-> tok, amt |-> amt])
           /\ last' = Did(IF flow THEN "executeCompleteSwap"
                                  ELSE "createSwapSession",
                          "signing", 0, "none", "none")

createSwapSession(sessionId) ==
  /\ createSwapSessionCall(sessionId, 0, 0, FALSE)
  /\ UNCHANGED <<socket, zombies, connectionStatus, messageQueue, authState,
                 walletClient, sessionExpireTimestamp, balances,
                 isTransferring, storedKey, storedJWT, wire, pendingAuthReq,
                 pendingSig, pendingBal, pendingTransfer, channels,
                 pendingChan, heldChannels,
                 activeSwapSession, swapWaits>>

\* executeCompleteSwap(params) up to its first await: step 1.
executeCompleteSwap(sessionId, tok, amt) ==
  /\ createSwapSessionCall(sessionId, tok, amt, TRUE)
  /\ UNCHANGED <<socket, zombies, connectionStatus, messageQueue, authState,
                 walletClient, sessionExpireTimestamp, balances,
                 isTransferring, storedKey, storedJWT, wire, pendingAuthReq,
                 pendingSig, pendingBal, pendingTransfer, channels,
                 pendingChan, heldChannels,
                 activeSwapSession, swapWaits>>

\* The guards of depositToChannel(): the error it returns, or "allowance"
\* when it goes on to read the allowance.
depositToChannelGuard ==
  IF walletClient = 0 \/ authState.account = 0
    THEN "Wallet not connected"
    ELSE IF ~authState.isAuthenticated \/ authState.sessionKey = 0
      THEN "Not authenticated with Yellow Network"
      ELSE "allowance"

\* createSwapChannel() up to its await, with `session` the tracked session:
\* the guard, then depositToChannel() up to its first await.
createSwapChannelCall(session, sessionId, tok, amt, flow, sent) ==
  IF ~TrackedSession(session, sessionId)
    THEN /\ UNCHANGED pendingChan
         /\ last' = Returned(flow, "createSwapChannel",
                             "Invalid or expired session", sent)
    ELSE IF depositToChannelGuard # "allowance"
      THEN /\ UNCHANGED pendingChan
           /\ last' = Returned(flow, "createSwapChannel",
                               depositToChannelGuard, sent)
      ELSE /\ pendingChan' = Append(pendingChan,
                [op |-> "depositToChannel", stage |-> "allowance",
                 tok |-> tok, amt |-> amt, acct |-> authState.account,
                 allowance |-> NULL, swap |-> sessionId, flow |-> flow,
                 todo |-> << >>])
           /\ last' = Did(IF flow THEN "executeCompleteSwap"
                                  ELSE "createSwapChannel",
                          IF flow THEN "createSwapChannel" ELSE "allowance",
                          sent, "none", "none")

createSwapChannel(sessionId, tok, amt) ==
  /\ createSwapChannelCall(activeSwapSession, sessionId, tok, amt, FALSE, 0)
  /\ UNCHANGED swapVars
  /\ UNCHANGED <<socket, zombies, connectionStatus, messageQueue, authState,
                 walletClient, sessionExpireTimestamp, balances,
                 isTransferring, storedKey, storedJWT, wire, pendingAuthReq,
                 pendingSig, pendingBal, pendingTransfer, channels,
                 heldChannels>>

\* createSwapSession() after its await: the frame goes to sendMessage and
\* the session becomes the tracked one.
createSwapSessionSend(i) ==
  /\ i \in 1..Len(pendingSwap)
  /\ pendingSwap[i].op = "createSwapSession"
  /\ LET f == SwapFrame("create_swap_session", pendingSwap[i].acct,
                        pendingSwap[i].sessionId, 0)
     IN /\ wire' = sendMessageWire(wire, f)
        /\ messageQueue' = sendMessageQueue(messageQueue, f)
  /\ activeSwapSession' = [sessionId |-> pendingSwap[i].sessionId,
                           status |-> "created", swapId |-> 0,
                           channelId |-> << >>]
  /\ pendingSwap' = RemoveAt(pendingSwap, i)
  /\ IF pendingSwap[i].flow
       THEN createSwapChannelCall(activeSwapSession', pendingSwap[i].sessionId,
                                  pendingSwap[i].tok, pendingSwap[i].amt,
                                  TRUE, 1)
       ELSE /\ UNCHANGED pendingChan
            /\ last' = Did("createSwapSession", "success", 1, "none", "none")
  /\ UNCHANGED <<socket, zombies, connectionStatus, authState, walletClient,
                 sessionExpireTimestamp, balances, isTransferring, storedKey,
                 storedJWT, pendingAuthReq, pendingSig, pendingBal,
                 pendingTransfer, channels, heldChannels, swapWaits>>

\* sendSwapRequest() up to its await, with `pending` the calls in progress:
\* the guard, then signSessionData() up to the wallet's signTypedData.
sendSwapRequestCall(pending, sessionId, t, flow, sent) ==
  IF ~TrackedSession(activeSwapSession, sessionId)
    THEN /\ pendingSwap' = pending
         /\ last' = Returned(flow, "sendSwapRequest",
                             "Invalid or expired session", sent)
    ELSE IF walletClient = 0 \/ authState.account = 0
      THEN /\ pendingSwap' = pending
           /\ last' = Returned(flow, "sendSwapRequest",
                               "Wallet not available for signing", sent)
      ELSE /\ pendingSwap' = Append(pending,
                [op |-> "sendSwapRequest", sessionId |-> sessionId,
                 swapId |-> SwapId(sessionId, t),
                 acct |-> authState.account, flow |-> flow, tok |-> 0,
                 amt |-> 0])
           /\ last' = Did(IF flow THEN "executeCompleteSwap"
                                  ELSE "sendSwapRequest",
                          IF flow THEN "sendSwapRequest" ELSE "signing",
                          sent, "none", "none")

sendSwapRequest(sessionId, t) ==
  /\ sendSwapRequestCall(pendingSwap, sessionId, t, FALSE, 0)
  /\ UNCHANGED <<socket, zombies, connectionStatus, messageQueue, authState,
                 walletClient, sessionExpireTimestamp, balances,
                 isTransferring, storedKey, storedJWT, wire, pendingAuthReq,
                 pendingSig, pendingBal, pendingTransfer, channels,
                 pendingChan, heldChannels,
                 activeSwapSession, swapWaits>>

\* createSwapChannel() after signSessionData(): the frame goes to
\* sendMessage and the result of the deposit is returned; executeCompleteSwap
\* goes on with step 3, at clock value t.
createSwapChannelSend(i, t) ==
  /\ i \in 1..Len(pendingSwap)
  /\ pendingSwap[i].op = "createSwapChannel"
  /\ LET f == SwapFrame("swap_channel_created", pendingSwap[i].acct,
                        pendingSwap[i].sessionId, 0)
     IN /\ wire' = sendMessageWire(wire, f)
        /\ messageQueue' = sendMessageQueue(messageQueue, f)
  /\ IF pendingSwap[i].flow
       THEN sendSwapRequestCall(RemoveAt(pendingSwap, i),
                                pendingSwap[i].sessionId, t, TRUE, 1)
       ELSE /\ pendingSwap' = RemoveAt(pendingSwap, i)
            /\ last' = Did("createSwapChannel", "success", 1, "none", "none")
  /\ UNCHANGED <<socket, zombies, connectionStatus, authState, walletClient,
                 sessionExpireTimestamp, balances, isTransferring, storedKey,
                 storedJWT, pendingAuthReq, pendingSig, pendingBal,
                 pendingTransfer, channels, pendingChan, heldChannels,
                 activeSwapSession, swapWaits>>

\* sendSwapRequest() after its await: the frame goes to sendMessage, the
\* tracked session is updated, and waitForSwapResponse() starts its timer and
\* wraps its filter around the current this.handleMessage.
sendSwapRequestSend(i) ==
  /\ i \in 1..Len(pendingSwap)
  /\ pendingSwap[i].op = "sendSwapRequest"
  /\ LET f == SwapFrame("initiate_swap", pendingSwap[i].acct,
                        pendingSwap[i].sessionId, pendingSwap[i].swapId)
     IN /\ wire' = sendMessageWire(wire, f)
        /\ messageQueue' = sendMessageQueue(messageQueue, f)
  /\ activeSwapSession' = [activeSwapSession EXCEPT
       !.swapId = pendingSwap[i].swapId, !.status = "swap_initiated"]
  /\ swapWaits' = Append(swapWaits,
       [swapId |-> pendingSwap[i].swapId, waiting |-> TRUE,
        installed |-> TRUE])
  /\ pendingSwap' = RemoveAt(pendingSwap, i)
  /\ last' = Did("sendSwapRequest", "waiting", 1, "none", "none")
  /\ UNCHANGED <<socket, zombies, connectionStatus, authState, walletClient,
                 sessionExpireTimestamp, balances, isTransferring, storedKey,
                 storedJWT, pendingAuthReq, pendingSig, pendingBal,
                 pendingTransfer, channels, pendingChan, heldChannels>>

\* signSessionData() rejects (the user refused to sign): the catch block of
\* the calling operation returns the failure.
signSessionDataThrow(i) ==
  /\ i \in 1..Len(pendingSwap)
  /\ pendingSwap' = RemoveAt(pendingSwap, i)
  /\ last' = Returned(pendingSwap[i].flow, pendingSwap[i].op, "sign failed",
                      0)
  /\ UNCHANGED <<socket, zombies, connectionStatus, messageQueue, authState,
                 walletClient, sessionExpireTimestamp, balances,
                 isTransferring, storedKey, storedJWT, wire, pendingAuthReq,
                 pendingSig, pendingBal, pendingTransfer, channels,
                 pendingChan, heldChannels,
                 activeSwapSession, swapWaits>>

\* The 60 s timer of wait i fires: the promise resolves with the timeout
\* failure.  The callback does nothing else.
waitForSwapResponseTimeout(i) ==
  /\ i \in 1..Len(swapWaits)
  /\ swapWaits[i].waiting
  /\ swapWaits' = LiveWaits([swapWaits EXCEPT ![i].waiting = FALSE])
  /\ last' = Did("waitForSwapResponse", "Swap response timeout", 0, "none",
                 "none")
  /\ UNCHANGED <<socket, zombies, connectionStatus, messageQueue, authState,
                 walletClient, sessionExpireTimestamp, balances,
                 isTransferring, storedKey, storedJWT, wire, pendingAuthReq,
                 pendingSig, pendingBal, pendingTransfer, channels,
                 pendingChan, heldChannels,
                 activeSwapSession, pendingSwap>>

\* The waits after a frame {type: "swap_response", payload: {swapId}} went
\* through this.handleMessage: every filter of the handler runs after the
\* handler it wraps; one that matches clears its timer, resolves its promise
\* and assigns the handler it wrapped to this.handleMessage, the outermost
\* match assigning last.
FilterSwapResponse(ws, swapId) ==
  LET matches == {k \in 1..Len(ws) : ws[k].installed /\ ws[k].swapId = swapId}
      outer == CHOOSE k \in matches : \A j \in matches : j <= k
  IN IF matches = {}
       THEN ws
       ELSE LiveWaits([k \in 1..Len(ws) |->
              [swapId |-> ws[k].swapId,
               waiting |-> ws[k].waiting /\ k \notin matches,
               installed |-> ws[k].installed /\ k < outer]])

\* The answer to the oldest unanswered request, an initiate_swap: a
\* swap_response frame with its swapId.  parseAnyRPCResponse, first statement
\* of the method, either accepts the frame (which then falls to the default
\* case) or throws, and then the filters' await throws too.
handleSwapResponse(parses, success) ==
  /\ Answering({"initiate_swap"})
  /\ wire' = Tail(wire)
  /\ swapWaits' = IF parses THEN FilterSwapResponse(swapWaits, wire[1].rexp)
                            ELSE swapWaits
  /\ last' = Did("handleSwapResponse",
                 IF ~parses THEN "throw"
                 ELSE IF success THEN "success" ELSE "Swap failed",
                 0, "none", "none")
  /\ UNCHANGED <<socket, zombies, connectionStatus, messageQueue, authState,
                 walletClient, sessionExpireTimestamp, balances,
                 isTransferring, storedKey, storedJWT, pendingAuthReq,
                 pendingSig, pendingBal, pendingTransfer, channels,
                 pendingChan, heldChannels,
                 activeSwapSession, pendingSwap>>

\* The answer to a create_swap_session or a swap_channel_created: a frame no
\* case of the switch and no filter handles.
handleMessageDefault ==
  /\ Answering({"create_swap_session", "swap_channel_created"})
  /\ wire' = Tail(wire)
  /\ last' = Did("handleMessage", "Unhandled message", 0, "none", "none")
  /\ UNCHANGED <<socket, zombies, connectionStatus, messageQueue, authState,
                 walletClient, sessionExpireTimestamp, balances,
                 isTransferring, storedKey, storedJWT, pendingAuthReq,
                 pendingSig, pendingBal, pendingTransfer, channels,
                 pendingChan, heldChannels,
                 activeSwapSession, swapWaits, pendingSwap>>

\* socket.onmessage for a frame the named parser throws on.  JSON.parse is
\* called inside the try of onmessage: the error is logged.
\* parseAnyRPCResponse is the first statement of the async handleMessage(),
\* before its try, and onmessage does not await the call: the promise is
\* rejected and nothing handles the rejection.
onmessageUnparsed(parser) ==
  /\ socket = OPEN
  /\ last' = Did("onmessage",
                 IF parser = "JSON.parse" THEN "logged"
                                          ELSE "unhandled rejection",
                 0, "none", "none")
  /\ UNCHANGED <<socket, zombies, connectionStatus, messageQueue, authState,
                 walletClient, sessionExpireTimestamp, balances,
                 isTransferring, storedKey, storedJWT, wire, pendingAuthReq,
                 pendingSig, pendingBal, pendingTransfer, channels,
                 pendingChan, heldChannels, swapVars>>

\* ------------------------------------------------------------------- Next
\* A call that starts a handshake or a transfer is taken only while fewer
\* than cap are in progress.

\* The current socket opens, at one of the given clock values.
Opens(times, cap) ==
  \E t \in times \cap Times :
    (socket = CONNECTING
       /\ tryAutoAuthenticate(authState, "Connected", walletClient)
       => AuthInFlight < cap) /\ onopen(t)

\* The transport: calls and socket events.
NextConnection(times, cap) ==
  \/ connect
  \/ disconnect
  \/ Opens(times, cap)
  \/ closingHandshake
  \/ onclose
  \/ oncloseReplaced

\* The handshake: calls, continuations and the frames that answer it.
NextHandshake(accts, times, cap) ==
  \/ \E a \in accts, t \in times \cap Times :
       (connectionStatus = "Connected" => AuthInFlight < cap)
         /\ authenticate(a, a, t)
  \/ \E i \in 1..Len(pendingAuthReq) : startAuthenticationSend(i)
  \/ \E i \in 1..Len(pendingAuthReq) : startAuthenticationThrow(i)
  \/ logout
  \/ handleAuthChallenge
  \/ \E i \in 1..Len(pendingSig) : handleAuthChallengeSend(i)
  \/ \E i \in 1..Len(pendingSig) : handleAuthChallengeReject(i)
  \/ \E jwt \in BOOLEAN : handleAuthSuccess(jwt)
  \/ handleAuthVerifyFailure
  \/ \E i \in 1..Len(pendingBal) : fetchBalancesSend(i)
  \/ \E i \in 1..Len(pendingBal) : fetchBalancesThrow(i)
  \/ \E t \in Tables \cup {0} : handleBalanceResponse(t)
  \/ handleError

StartsTransfer ==
  authState.isAuthenticated /\ authState.sessionKey # 0 /\ ~isTransferring

NextTransfers(cap) ==
  \/ (StartsTransfer => TransferInFlight < cap) /\ transfer
  \/ \E i \in 1..Len(pendingTransfer) : transferSend(i)
  \/ \E i \in 1..Len(pendingTransfer) : transferThrow(i)
  \/ handleTransferResponse

NextChannels(amts, cap) ==
  \/ \E tok \in Tokens, amt \in amts :
       (walletClient # 0 /\ authState.account # 0 => Len(pendingChan) < cap)
         /\ openChannel(tok, amt)
  \/ \E i \in 1..Len(pendingChan), allowance \in Allowances :
       openChannelAllowance(i, allowance)
  \/ \E i \in 1..Len(pendingChan) : openChannelHash(i)
  \/ \E i \in 1..Len(pendingChan) : openChannelApproved(i)
  \/ \E i \in 1..Len(pendingChan) : openChannelDeposited(i)
  \/ \E i \in 1..Len(pendingChan) : openChannelThrow(i)

\* Deposits, withdrawals and the application's use of getChannels().
NextCustody(amts, cap) ==
  \/ NextChannels(amts, cap)
  \/ \E tok \in Tokens, amt \in amts :
       Len(pendingChan) < cap /\ depositToChannel(tok, amt)
  \/ \E tok \in Tokens, amt \in amts :
       Len(pendingChan) < cap /\ closeChannel(tok, amt)
  \/ \E i \in 1..Len(pendingChan) : closeChannelWithdrawn(i)
  \/ getChannels
  \/ \E tok \in Tokens, a \in Accounts : writeHeldChannel(<<tok, a>>)

\* Connection and authentication of two accounts, one handshake at a time.
Next ==
  \/ NextConnection({1}, MaxAuthInFlight)
  \/ NextHandshake(Accounts, {1}, MaxAuthInFlight)

Spec == Init /\ [][Next]_vars

\* Connection and authentication of one account, the clock advancing,
\* handshakes overlapping.
NextOverlap ==
  \/ NextConnection(1..MaxTime, MaxAuthOverlap)
  \/ NextHandshake({1}, 1..MaxTime, MaxAuthOverlap)

SpecOverlap == Init /\ [][NextOverlap]_vars

\* Connection, authentication of one account and transfers.
NextTransfer ==
  \/ NextConnection({1}, MaxAuthInFlight)
  \/ NextHandshake({1}, {1}, MaxAuthInFlight)
  \/ NextTransfers(MaxTransferOverlap)

SpecTransfer == Init /\ [][NextTransfer]_vars

\* Connection and authentication of one account, one handshake at a time.
NextLink ==
  \/ NextConnection({1}, MaxAuthInFlight)
  \/ NextHandshake({1}, {1}, MaxAuthInFlight)

SpecLink == Init /\ [][NextLink]_vars

\* What goes on without a call of the application: a promise the client
\* awaits is settled, and the server answers a frame of the handshake.
LinkProgress ==
  \/ \E i \in 1..Len(pendingAuthReq) : startAuthenticationSend(i)
  \/ handleAuthChallenge
  \/ \E i \in 1..Len(pendingSig) : handleAuthChallengeSend(i)
  \/ \E jwt \in BOOLEAN : handleAuthSuccess(jwt)
  \/ \E i \in 1..Len(pendingBal) : fetchBalancesSend(i)
  \/ \E t \in Tables \cup {0} : handleBalanceResponse(t)

\* The same, where what goes on by itself does go on.
SpecLinkFair == Init /\ [][NextLink]_vars /\ WF_vars(LinkProgress)

\* The handshake of one account with a wallet that signs, on a server that
\* accepts the signature and issues a bearer token.
NextSignIn ==
  \/ (connectionStatus = "Connected" => AuthInFlight < MaxAuthInFlight)
       /\ authenticate(1, 1, 1)
  \/ \E i \in 1..Len(pendingAuthReq) : startAuthenticationSend(i)
  \/ handleAuthChallenge
  \/ \E i \in 1..Len(pendingSig) : handleAuthChallengeSend(i)
  \/ handleAuthSuccess(TRUE)
  \/ \E i \in 1..Len(pendingBal) : fetchBalancesSend(i)
  \/ \E t \in Tables : handleBalanceResponse(t)

\* A connection that opens and drops, sign-in, transfers and error frames.
NextPay ==
  \/ connect
  \/ Opens({1}, MaxAuthInFlight)
  \/ onclose
  \/ NextSignIn
  \/ handleError
  \/ NextTransfers(MaxTransferInFlight)

SpecPay == Init /\ [][NextPay]_vars

\* What goes on without a call of the application, transfers included: a
\* promise the client awaits is settled, and the server answers a frame it
\* received, with a response or with an error.
PayProgress ==
  \/ LinkProgress
  \/ \E i \in 1..Len(pendingTransfer) : transferSend(i)
  \/ handleTransferResponse
  \/ handleError

\* The same, where what goes on by itself does go on.
SpecPayFair == Init /\ [][NextPay]_vars /\ WF_vars(PayProgress)

\* A session on a connection that stays up and a server that accepts:
\* authentication of one account, balances, a transfer and a channel being
\* opened, with logout() at any point of it.
NextSession ==
  \/ connect
  \/ Opens({1}, MaxAuthInFlight)
  \/ NextSignIn
  \/ (StartsTransfer => TransferInFlight < MaxTransferInFlight) /\ transfer
  \/ \E i \in 1..Len(pendingTransfer) : transferSend(i)
  \/ NextChannels(Amounts, MaxChanInFlight)
  \/ logout

SpecSession == Init /\ [][NextSession]_vars

\* Swap calls, their continuations and the frames that answer them.  A call
\* is taken while fewer than cap are in progress, and a swap request while
\* fewer than MaxSwapWaits waits are remembered.
NextSwaps(ids, times, cap) ==
  \/ \E sessionId \in ids :
       SwapInFlight < cap /\ createSwapSession(sessionId)
  \/ \E i \in 1..Len(pendingSwap) : createSwapSessionSend(i)
  \/ \E sessionId \in ids, t \in times :
       /\ SwapInFlight < cap
       /\ Len(swapWaits) < MaxSwapWaits
       /\ sendSwapRequest(sessionId, t)
  \/ \E i \in 1..Len(pendingSwap) : sendSwapRequestSend(i)
  \/ \E i \in 1..Len(pendingSwap) : signSessionDataThrow(i)
  \/ \E i \in 1..Len(swapWaits) : waitForSwapResponseTimeout(i)
  \/ \E parses \in BOOLEAN, success \in BOOLEAN :
       handleSwapResponse(parses, success)
  \/ handleMessageDefault

\* Sign-in on a connection that stays up, then swap sessions and swap
\* requests, and frames that do not parse at any time.
NextSwap ==
  \/ connect
  \/ Opens({1}, MaxAuthInFlight)
  \/ NextSignIn
  \/ NextSwaps(SwapSessionIds, 1..MaxTime, MaxSwapInFlight)
  \/ \E parser \in {"JSON.parse", "parseAnyRPCResponse"} :
       onmessageUnparsed(parser)

SpecSwap == Init /\ [][NextSwap]_vars

\* Sign-in on a connection that stays up, and channel operations one at a
\* time.
NextChannel ==
  \/ connect
  \/ Opens({1}, MaxAuthInFlight)
  \/ NextSignIn
  \/ NextCustody(Amounts, MaxChanInFlight)

SpecChannel == Init /\ [][NextChannel]_vars

\* The step in which the executeCompleteSwap() call that made this session
\* id is awaiting the wallet or the chain: 1 createSwapSession, 2
\* createSwapChannel, 3 sendSwapRequest up to its wait for the response; 0
\* when no such call is in progress.
executeCompleteSwapStep(sessionId) ==
  LET Awaits(op) == \E k \in 1..Len(pendingSwap) :
                      /\ pendingSwap[k].flow
                      /\ pendingSwap[k].sessionId = sessionId
                      /\ pendingSwap[k].op = op
  IN IF Awaits("createSwapSession") THEN 1
     ELSE IF \/ Awaits("createSwapChannel")
             \/ \E k \in 1..Len(pendingChan) :
                  pendingChan[k].flow /\ pendingChan[k].swap = sessionId
       THEN 2
       ELSE IF Awaits("sendSwapRequest") THEN 3 ELSE 0

\* Deposits and withdrawals of the given tokens and sweeps of the table, a
\* deposit being started while fewer than MaxChanInFlight calls are in
\* progress, a withdrawal or a sweep while fewer than cap; the chain answers
\* a read with one of the given balances or with an error, and the tokens
\* are approved for the amounts.
NextSweeps(tokens, amts, reads, cap) ==
  \/ \E tok \in tokens, amt \in amts :
       Len(pendingChan) < MaxChanInFlight /\ depositToChannel(tok, amt)
  \/ \E i \in 1..Len(pendingChan), allowance \in Allowances :
       allowance >= pendingChan[i].amt /\ openChannelAllowance(i, allowance)
  \/ \E i \in 1..Len(pendingChan) : openChannelHash(i)
  \/ \E i \in 1..Len(pendingChan) : openChannelDeposited(i)
  \/ \E i \in 1..Len(pendingChan) : openChannelThrow(i)
  \/ \E tok \in tokens, amt \in amts :
       Len(pendingChan) < cap /\ closeChannel(tok, amt)
  \/ \E i \in 1..Len(pendingChan) : closeChannelWithdrawn(i)
  \/ \E e \in Entries(channels) :
       Len(pendingChan) < cap /\ refreshChannelBalances(e)
  \/ \E i \in 1..Len(pendingChan), read \in reads \cup {NULL} :
       refreshChannelBalancesRead(i, read)

\* Sign-in on a connection that stays up, then deposits, withdrawals and
\* sweeps of two tokens, two at a time.
NextRefresh ==
  \/ connect
  \/ Opens({1}, MaxAuthInFlight)
  \/ NextSignIn
  \/ NextSweeps(1..MaxTokens, {1}, {5}, MaxSweepInFlight)

SpecRefresh == Init /\ [][NextRefresh]_vars

\* A session id no call of createSwapSession() has produced yet
\* (`swap-${Date.now()}-${random}`).
FreshSessionId(id) ==
  /\ id > activeSwapSession.sessionId
  /\ \A k \in 1..Len(pendingSwap) : id > pendingSwap[k].sessionId
  /\ \A k \in 1..Len(pendingChan) : id > pendingChan[k].swap

\* The three swap steps called one by one or by executeCompleteSwap(), the
\* deposit of step 2 with its continuations, and the frames that answer.
NextSwapSteps(ids, amts, cap) ==
  \/ \E sessionId \in ids :
       /\ SwapFlowInFlight < cap
       /\ FreshSessionId(sessionId)
       /\ createSwapSession(sessionId)
  \/ \E sessionId \in ids, tok \in Tokens, amt \in amts :
       /\ SwapFlowInFlight < cap
       /\ FreshSessionId(sessionId)
       /\ executeCompleteSwap(sessionId, tok, amt)
  \/ \E i \in 1..Len(pendingSwap) : createSwapSessionSend(i)
  \/ \E sessionId \in ids, tok \in Tokens, amt \in amts :
       SwapFlowInFlight < cap /\ createSwapChannel(sessionId, tok, amt)
  \/ \E i \in 1..Len(pendingChan), allowance \in Allowances :
       openChannelAllowance(i, allowance)
  \/ \E i \in 1..Len(pendingChan) : openChannelHash(i)
  \/ \E i \in 1..Len(pendingChan) : openChannelApproved(i)
  \/ \E i \in 1..Len(pendingChan) : openChannelDeposited(i)
  \/ \E i \in 1..Len(pendingChan) : openChannelThrow(i)
  \/ \E i \in 1..Len(pendingSwap) :
       (pendingSwap[i].flow => Len(swapWaits) < MaxSwapWaits)
         /\ createSwapChannelSend(i, 1)
  \/ \E sessionId \in ids :
       /\ SwapFlowInFlight < cap
       /\ Len(swapWaits) < MaxSwapWaits
       /\ sendSwapRequest(sessionId, 1)
  \/ \E i \in 1..Len(pendingSwap) : sendSwapRequestSend(i)
  \/ \E i \in 1..Len(pendingSwap) : signSessionDataThrow(i)
  \/ \E i \in 1..Len(swapWaits) : waitForSwapResponseTimeout(i)
  \/ \E success \in BOOLEAN : handleSwapResponse(TRUE, success)
  \/ handleMessageDefault

\* Sign-in on a connection that stays up, logout, and the swap steps of two
\* sessions.
NextSwapFlow ==
  \/ connect
  \/ Opens({1}, MaxAuthInFlight)
  \/ NextSignIn
  \/ logout
  \/ NextSwapSteps(1..MaxSwapSessions, {1}, MaxSwapFlowInFlight)

SpecSwapFlow == Init /\ [][NextSwapFlow]_vars

\* Steps 1 and 2 of a swap called one by one, the deposit of step 2 with its
\* continuations, and the frames that answer; a call is taken while fewer
\* than cap are in progress.
NextSwapChannels(ids, amts, cap) ==
  \/ \E sessionId \in ids :
       /\ SwapFlowInFlight < cap
       /\ FreshSessionId(sessionId)
       /\ createSwapSession(sessionId)
  \/ \E i \in 1..Len(pendingSwap) : createSwapSessionSend(i)
  \/ \E sessionId \in ids, tok \in Tokens, amt \in amts :
       SwapFlowInFlight < cap /\ createSwapChannel(sessionId, tok, amt)
  \/ \E i \in 1..Len(pendingChan), allowance \in Allowances :
       openChannelAllowance(i, allowance)
  \/ \E i \in 1..Len(pendingChan) : openChannelHash(i)
  \/ \E i \in 1..Len(pendingChan) : openChannelApproved(i)
  \/ \E i \in 1..Len(pendingChan) : openChannelDeposited(i)
  \/ \E i \in 1..Len(pendingChan) : openChannelThrow(i)
  \/ \E i \in 1..Len(pendingSwap) : createSwapChannelSend(i, 1)
  \/ \E i \in 1..Len(pendingSwap) : signSessionDataThrow(i)
  \/ handleMessageDefault

\* Sign-in on a connection that stays up, then swap sessions and their
\* channels, two calls at a time.
NextSwapChannel ==
  \/ connect
  \/ Opens({1}, MaxAuthInFlight)
  \/ NextSignIn
  \/ NextSwapChannels(1..MaxSwapSessions, {1}, MaxSwapOverlap)

SpecSwapChannel == Init /\ [][NextSwapChannel]_vars

\* ----------------------------------------------------------------- claims
\* C1: when authenticate() is called twice in a row while Connected, before
\* any challenge has arrived, the second call starts no second handshake (no
\* second auth-request is built and sent).
C1_SecondCallStartsNoHandshake ==
  [][(connectionStatus = "Connected" /\ last.op = "authenticate"
        /\ last.res = "auth" /\ last'.op = "authenticate")
       => pendingAuthReq' = pendingAuthReq]_vars

\* C2: in every reachable state isAuthenticated implies that the session key
\* and the account are set.
C2_AuthenticatedHasKeyAndAccount ==
  authState.isAuthenticated
    => authState.sessionKey # 0 /\ authState.account # 0

\* C3: the expiry in the signing payload built for a challenge equals the
\* expiry of the auth-request that the challenge answers.
C3_ExpiryConsistent ==
  \A p \in Range(pendingSig) : p.exp = p.rexp

\* C4: authenticate() called while not Connected sends nothing, and the
\* opening of the connection that follows it starts exactly one handshake,
\* for that account and the current session key.
C4_AutoAuthenticateOnOpen ==
  /\ [](last.op = "authenticate" /\ last.res = "noauth" => last.sent = 0)
  /\ [][(last.op = "authenticate" /\ last.res = "noauth"
          /\ last'.op = "onopen")
         => /\ Len(pendingAuthReq') = Len(pendingAuthReq) + 1
            /\ pendingAuthReq'[Len(pendingAuthReq')].acct = authState.account
            /\ pendingAuthReq'[Len(pendingAuthReq')].key
                 = authState.sessionKey]_vars

\* C5: with one handshake at a time, isAuthAttempted is false after every
\* outcome of it: verify acknowledged with or without success, signature
\* rejected, failure building the auth-request or handling the challenge,
\* error frame.
C5_AttemptClearedAfterOutcome ==
  (\/ last.op \in {"handleAuthSuccess", "handleAuthVerifyFailure"}
   \/ last.op = "handleAuthChallenge" /\ last.res \in {"rejected", "throw"}
   \/ last.op = "startAuthentication" /\ last.res = "throw"
   \/ last.op = "handleError" /\ last.res \in {"auth_request", "auth_verify"})
    => ~authState.isAuthAttempted

\* C6: transfer() while isTransferring returns 'Transfer already in
\* progress', sends and queues nothing and leaves the flag set; and at most
\* one transfer is outstanding (being signed, queued or unanswered).
C6_OneTransferOutstanding ==
  /\ last.op = "transfer" /\ last.res = "Transfer already in progress"
       => isTransferring /\ last.sent = 0
  /\ TransferInFlight <= 1

\* C7: when building the transfer request throws, the call has sent no
\* frame, has published the failure, isTransferring is false, and a
\* transfer() that follows is not rejected as already in progress.
C7_TransferThrowRecovers ==
  /\ [](last.op = "transfer" /\ last.res = "Transfer failed"
         => ~isTransferring /\ last.sent = 0 /\ last.tpub = "fail")
  /\ [][(last.op = "transfer" /\ last.res = "Transfer failed"
          /\ last'.op = "transfer")
         => last'.res # "Transfer already in progress"]_vars

C7_Witness ==
  /\ last.op = "transfer" /\ last.res = "Transfer failed"
  /\ authState.isAuthenticated

\* C8: the frame that answers a transfer sets isTransferring to false and
\* publishes the final result: success for a confirmation, failure for an
\* error frame.
C8_AnswerPublishesResult ==
  /\ last.op = "handleTransferResponse"
       => ~isTransferring /\ last.tpub = "ok"
  /\ last.op = "handleError" /\ last.res = "transfer"
       => ~isTransferring /\ last.tpub = "fail"

\* C9: right after logout(), isAuthenticated and isAuthAttempted are false,
\* account is null, balances and channels are empty, isTransferring is
\* false, no bearer token is stored and the session key is set.
C9_LogoutResets ==
  last.op = "logout"
    => /\ ~authState.isAuthenticated /\ ~authState.isAuthAttempted
       /\ authState.account = 0
       /\ balances = 0 /\ channels = {}
       /\ ~isTransferring
       /\ ~storedJWT
       /\ authState.sessionKey # 0

\* logout() taken in the middle of a session: a transfer is unanswered and
\* an openChannel() call is waiting.
C9_Witness ==
  /\ last.op = "logout"
  /\ Count(wire, {"transfer"}) > 0
  /\ pendingChan # << >>

C11_QueueFlushedInOrder ==
  [][/\ (last'.sent = 1 /\ last'.op # "onopen" /\ socket # OPEN)
          => /\ wire' = wire
             /\ Len(messageQueue') = Len(messageQueue) + 1
             /\ SubSeq(messageQueue', 1, Len(messageQueue)) = messageQueue
     /\ (last'.sent = 1 /\ last'.op # "onopen" /\ socket = OPEN)
          => /\ messageQueue' = messageQueue
             /\ Len(wire') = Len(wire) + 1
             /\ SubSeq(wire', 1, Len(wire)) = wire
     /\ last'.op = "onopen"
          => /\ wire' = messageQueue
             /\ messageQueue' = << >>
             /\ last'.sent = Len(messageQueue)]_vars

\* The socket has opened with two different frames queued, and sent both.
C11_Witness ==
  /\ last.op = "onopen" /\ last.sent = 2
  /\ Len(wire) = 2 /\ wire[1].kind # wire[2].kind
  /\ messageQueue = << >>

\* C12: when the timer of a swap-response wait fires, the wait resolves with
\* 'Swap response timeout' and its filter is no longer part of
\* this.handleMessage.
C12_TimeoutRemovesFilter ==
  [][\A i \in 1..Len(swapWaits) :
       waitForSwapResponseTimeout(i) /\ swapWaits[i].installed
         => /\ last'.res = "Swap response timeout"
            /\ Len(handleMessageFilters') < Len(handleMessageFilters)]_vars

\* C13: while the handling of an auth-challenge frame awaits the wallet's
\* signature, the handling of a later inbound frame changes no state.
C13_FramesHandledOneAtATime ==
  [][(/\ pendingSig # << >>
      /\ socket = OPEN /\ socket' = OPEN
      /\ wire # << >> /\ wire' = Tail(wire))
       => UNCHANGED <<zombies, connectionStatus, messageQueue, authState,
                      walletClient, sessionExpireTimestamp, balances,
                      isTransferring, storedKey, storedJWT, pendingAuthReq,
                      pendingSig, pendingBal, pendingTransfer, channels,
                      pendingChan, heldChannels, swapVars>>]_vars

\* C14: an error frame handled while isTransferring is false removes the
\* stored bearer token and the stored session key, clears isAuthenticated and
\* isAuthAttempted, installs and stores a new session key different from the
\* one removed, and publishes the error to the error subscribers.
C14_ErrorResetsAuthentication ==
  [][last'.op = "handleError" /\ ~isTransferring
       => /\ ~storedJWT'
          /\ ~authState'.isAuthenticated
          /\ ~authState'.isAuthAttempted
          /\ authState'.sessionKey \notin {0, authState.sessionKey, storedKey}
          /\ storedKey' = authState'.sessionKey
          /\ last'.epub = "error"]_vars

\* An error frame has reset a session that was authenticated with a stored
\* bearer token.
C14_Witness ==
  /\ last.op = "handleError" /\ last.tpub = "none"
  /\ last.res = "get_ledger_balances"
  /\ authState.sessionKey = 2 /\ storedKey = 2
  /\ ~storedJWT /\ ~authState.isAuthenticated

\* C15: a call of transfer, openChannel, depositToChannel or closeChannel
\* made while isAuthenticated is false sends no frame, makes no on-chain
\* call (no operation is left waiting for the chain or the wallet) and
\* changes no state.
C15_NothingWhileUnauthenticated ==
  [][\A tok \in Tokens, amt \in Amounts :
       /\ ~authState.isAuthenticated
       /\ \/ transfer
          \/ openChannel(tok, amt)
          \/ depositToChannel(tok, amt)
          \/ closeChannel(tok, amt)
       => UNCHANGED <<wire, messageQueue, pendingTransfer, pendingChan,
                      isTransferring, channels, authState>>]_vars

\* C16: openChannel and depositToChannel start with the read of the
\* allowance; the approval is requested exactly when the allowance read is
\* below the amount, and then the deposit is requested only after the
\* approval's receipt; the deposit is requested straight after the read
\* exactly when the allowance covers the amount; and the channel table is
\* written only on the deposit's receipt, with an open record of the token
\* and account whose balance is the amount.
C16_ApproveThenDepositThenRecord ==
  [][last'.op \in {"openChannel", "depositToChannel"}
       => /\ Len(pendingChan') > Len(pendingChan)
               => pendingChan'[Len(pendingChan')].stage = "allowance"
          /\ \A i \in 1..Len(pendingChan) :
               Len(pendingChan') = Len(pendingChan)
                 /\ pendingChan'[i].stage # pendingChan[i].stage
                 => LET was == pendingChan[i]
                        now == pendingChan'[i]
                    IN /\ was.stage = "allowance"
                            => now.stage = IF now.allowance < now.amt
                                             THEN "approve" ELSE "deposit"
                       /\ now.stage = "approve" => was.stage = "allowance"
                       /\ now.stage = "deposit" /\ now.allowance < now.amt
                            => was.stage = "approveReceipt"
                       /\ now.stage = "approveReceipt"
                            => was.stage = "approve"
                       /\ now.stage = "depositReceipt"
                            => was.stage = "deposit"
          /\ channels' # channels \/ last'.res = "success"
               => \E i \in 1..Len(pendingChan) :
                    /\ pendingChan[i].stage = "depositReceipt"
                    /\ pendingChan' = RemoveAt(pendingChan, i)
                    /\ ChannelState(pendingChan[i].tok, pendingChan[i].acct,
                                    pendingChan[i].amt) \in channels']_vars

\* A deposit of 5, more than any allowance, has been confirmed and
\* recorded.
C16_Witness ==
  /\ last.op = "depositToChannel" /\ last.res = "success"
  /\ ChannelState(1, 1, 5) \in channels

\* C17: a deposit that succeeds leaves exactly one record for its token and
\* account, open, with the amount of this deposit as balance, whatever record
\* an earlier deposit left there; the other records are untouched.
C17_DepositReplacesRecord ==
  [][last'.op \in {"openChannel", "depositToChannel"}
       /\ last'.res = "success"
       => \E i \in 1..Len(pendingChan) :
            LET state == ChannelState(pendingChan[i].tok, pendingChan[i].acct,
                                      pendingChan[i].amt)
            IN /\ pendingChan[i].stage = "depositReceipt"
               /\ {c \in channels' : c.channelId = state.channelId} = {state}
               /\ {c \in channels' : c.channelId # state.channelId}
                    = {c \in channels : c.channelId # state.channelId}]_vars

\* A deposit of 1 has succeeded on the channel that held the record of a
\* deposit of 5, which the application got from getChannels() in between.
C17_Witness ==
  /\ last.op = "depositToChannel" /\ last.res = "success"
  /\ channels = {ChannelState(1, 1, 1)}
  /\ \E h \in heldChannels :
       h.then = ChannelState(1, 1, 5) /\ h.now = h.then /\ ~h.shared

\* C18: a confirmed withdrawal of W from a tracked channel whose balance is X
\* leaves its record in the table, closed with balance 0 if W >= X, and else
\* with balance X - W and isOpen as it was.
C18_WithdrawalUpdatesRecord ==
  [][last'.op = "closeChannel" /\ last'.res = "success"
       => \E i \in 1..Len(pendingChan) :
            /\ pendingChan[i].stage = "withdrawReceipt"
            /\ \A c \in channels :
                 c.channelId = <<pendingChan[i].tok, authState.account>>
                   => IF pendingChan[i].amt >= c.balance
                        THEN [c EXCEPT !.isOpen = FALSE, !.balance = 0]
                               \in channels'
                        ELSE [c EXCEPT !.balance = c.balance
                                                    - pendingChan[i].amt]
                               \in channels']_vars

\* C19: a table of channels the application got from the SDK is a snapshot:
\* no later operation of the SDK changes the records in it, and a write of
\* the application to one of its records does not change this.channels.
C19_SnapshotsAreIsolated ==
  [][/\ last'.op \notin {"application", "getChannels"}
          => {h.now : h \in heldChannels'} = {h.now : h \in heldChannels}
     /\ last'.op = "application" => channels' = channels]_vars

\* C20: an inbound frame that fails to parse changes no state of the
\* session, publishes nothing, and its error is logged inside the client: no
\* error leaves it.
C20_UnparsedFrameIsDropped ==
  [][last'.op = "onmessage"
       => /\ last'.res = "logged"
          /\ last'.tpub = "none" /\ last'.epub = "none"
          /\ UNCHANGED <<connectionStatus, authState, balances, channels,
                         isTransferring, messageQueue>>]_vars

\* C21 (as stated): the open event starts a handshake only if account,
\* session key and signer are set and isAuthenticated and isAuthAttempted are
\* false; when one of these fails, no auth-request goes out with the open
\* event.
C21_OpenSendsNoAuthRequest ==
  [][last'.op = "onopen"
       => /\ last'.res = "auth"
               => /\ authState.account # 0 /\ authState.sessionKey # 0
                  /\ ~authState.isAuthenticated /\ ~authState.isAuthAttempted
                  /\ walletClient # 0
          /\ last'.res # "auth"
               => \A i \in 1..Len(wire') : wire'[i].kind # "auth_request"]_vars

\* C21 (amended): the open event starts a handshake exactly when account,
\* session key and signer are set and isAuthenticated and isAuthAttempted are
\* false; otherwise it starts none, and the only auth-request frames it
\* transmits are those that were waiting in the outbound queue.
C21_OpenStartsHandshakeIffReady ==
  [][last'.op = "onopen"
       => /\ connectionStatus' = "Connected"
          /\ IF /\ authState.account # 0 /\ authState.sessionKey # 0
                /\ ~authState.isAuthenticated /\ ~authState.isAuthAttempted
                /\ walletClient # 0
               THEN /\ Len(pendingAuthReq') = Len(pendingAuthReq) + 1
                    /\ pendingAuthReq'[Len(pendingAuthReq')].acct
                         = authState.account
                    /\ authState'.isAuthAttempted
               ELSE /\ pendingAuthReq' = pendingAuthReq
                    /\ authState' = authState
          /\ wire' = wire \o messageQueue]_vars

\* The socket has opened with an auth-request in the queue and a handshake
\* already marked as attempted: it started none, and transmitted the frame.
C21_Witness ==
  /\ last.op = "onopen" /\ last.res = "noauth" /\ last.sent = 1
  /\ authState.isAuthAttempted /\ authState.account # 0
  /\ Len(wire) = 1 /\ wire[1].kind = "auth_request"
  /\ pendingAuthReq = << >>

\* C22: the session-key address and the account that go into the payload
\* signed in step 2 are those the auth-request carried for which the
\* challenge was issued.
C22_ChallengeSignsWhatWasRequested ==
  \A p \in Range(pendingSig) : p.key = p.rkey /\ p.app = p.racct

C24_SuccessStartsBalanceFetch ==
  [][/\ last'.op = "handleAuthSuccess"
          => /\ authState'.isAuthenticated
             /\ storedJWT \in {storedJWT', FALSE}
             /\ Len(pendingBal') = Len(pendingBal) + 1
             /\ pendingBal'[Len(pendingBal')].key = authState'.sessionKey
     /\ last'.op = "fetchBalances" /\ last'.res = "sent"
          => /\ Len(wire') + Len(messageQueue')
                  = Len(wire) + Len(messageQueue) + 1
             /\ authState' = authState
     /\ last'.op = "fetchBalances" /\ last'.res = "throw"
          => authState' = authState]_vars

\* C25: connectionStatus changes only from Disconnected to Connecting, from
\* Connecting to Connected and from any value to Disconnected; in
\* particular it never goes from Disconnected straight to Connected,
\* whatever the order of connect(), disconnect() and the events of the
\* current socket and of sockets replaced earlier.
C25_NeverDisconnectedToConnected ==
  [][~(connectionStatus = "Disconnected" /\ connectionStatus' = "Connected")
    ]_vars

\* C26 (as stated): while a swap-response wait is pending, every inbound
\* frame makes exactly one run of the general dispatcher handleMessage(),
\* whether or not it carries an awaited swapId.
C26_EveryFrameDispatchedOnce ==
  [][(\E k \in 1..Len(swapWaits) : swapWaits[k].waiting)
       /\ InboundFrame(last'.op, last'.res)
       => last'.dispatched = 1]_vars

\* C26 (amended): while a swap-response wait is pending, every inbound frame
\* that JSON.parse accepts makes exactly one run of handleMessage(), whether
\* or not it carries an awaited swapId; a frame JSON.parse rejects makes
\* none.
C26_ParsedFrameDispatchedOnce ==
  [][(\E k \in 1..Len(swapWaits) : swapWaits[k].waiting)
       /\ InboundFrame(last'.op, last'.res)
       => last'.dispatched =
            IF last'.op = "onmessage" /\ last'.res = "logged" THEN 0 ELSE 1
    ]_vars

\* A frame that carries no awaited swapId went through an installed filter
\* and made one run of handleMessage().
C26_Witness ==
  /\ last.op = "handleMessage"
  /\ last.dispatched = 1
  /\ \E k \in 1..Len(swapWaits) : swapWaits[k].waiting /\ swapWaits[k].installed

\* C27: when a swap_response frame with the swapId of a wait whose timer has
\* not fired arrives, the wait ends with the outcome of the frame, its timer
\* is cleared and its filter is no longer installed.
C27_MatchingResponseEndsWait ==
  [][last'.op = "handleSwapResponse"
       => \A k \in 1..Len(swapWaits) :
            swapWaits[k].waiting /\ swapWaits[k].swapId = wire[1].rexp
              => /\ last'.res \in {"success", "Swap failed"}
                 /\ \A j \in 1..Len(swapWaits') :
                      swapWaits'[j].swapId # wire[1].rexp]_vars

\* C28: createSwapChannel() and sendSwapRequest() called with a session id
\* that is not the id of the tracked session (none is tracked, or a later
\* createSwapSession() has replaced it) return 'Invalid or expired session'
\* and change nothing: no contract call is started, no frame is sent or
\* queued, and the tracked session stays as it is.
C28_UntrackedSessionIsRefused ==
  [][\A sessionId \in 1..MaxSwapSessions :
       /\ ~(activeSwapSession # NoSwapSession
              /\ activeSwapSession.sessionId = sessionId)
       /\ \/ \E tok \in Tokens, amt \in Amounts :
               createSwapChannel(sessionId, tok, amt)
          \/ sendSwapRequest(sessionId, 1)
       => /\ last'.res = "Invalid or expired session"
          /\ last'.sent = 0
          /\ UNCHANGED <<socket, zombies, connectionStatus, messageQueue,
                         authState, walletClient, sessionExpireTimestamp,
                         balances, isTransferring, storedKey, storedJWT,
                         wire, pendingAuthReq, pendingSig, pendingBal,
                         pendingTransfer, channels, pendingChan,
                         heldChannels, activeSwapSession, swapWaits,
                         pendingSwap>>]_vars

\* createSwapChannel() was refused for the id of a session that a later
\* createSwapSession() has replaced.
C28_Witness ==
  /\ last.op = "createSwapChannel"
  /\ last.res = "Invalid or expired session"
  /\ activeSwapSession.sessionId = 2
  /\ activeSwapSession.status = "created"

\* C29: while the same session stays tracked its status never moves to an
\* earlier stage of created, channel_created, swap_initiated, then completed
\* or failed.
C29_StatusOnlyMovesForward ==
  [][LET Stage(status) == IF status = "created" THEN 1
                          ELSE IF status = "channel_created" THEN 2
                          ELSE IF status = "swap_initiated" THEN 3
                          ELSE 4
     IN activeSwapSession # NoSwapSession
          /\ activeSwapSession'.sessionId = activeSwapSession.sessionId
          => Stage(activeSwapSession'.status)
               >= Stage(activeSwapSession.status)]_vars

\* C30: executeCompleteSwap() goes through createSwapSession,
\* createSwapChannel and sendSwapRequest in that order; it starts a step in
\* the step that ends the previous one with success (the frame of that step
\* sent, the session tracked, the deposit recorded); when a step fails it
\* returns the failure under the label of that step; and the step in which
\* it returns starts no withdrawal and closes no channel record, so a
\* record made in step 2 stays open when step 3 fails.
C30_StepsInOrderNoRollback ==
  [][\A sessionId \in 1..MaxSwapSessions :
     LET step == executeCompleteSwapStep(sessionId)
         next == executeCompleteSwapStep(sessionId)'
         Label(n) == IF n = 1 THEN "Session creation failed"
                     ELSE IF n = 2 THEN "Channel creation failed"
                     ELSE "Swap execution failed"
     IN /\ next # step => next \in {0, step + 1}
        /\ next = 1 /\ step = 0
             => last'.op = "executeCompleteSwap" /\ last'.res = "signing"
        /\ next = 2 /\ step = 1
             => /\ last'.op = "executeCompleteSwap"
                /\ last'.res = "createSwapChannel"
                /\ last'.sent = 1
                /\ activeSwapSession'.sessionId = sessionId
                /\ activeSwapSession'.status = "created"
        /\ next = 3 /\ step = 2
             => /\ last'.op = "executeCompleteSwap"
                /\ last'.res = "sendSwapRequest"
                /\ last'.sent = 1
                /\ activeSwapSession.sessionId = sessionId
                /\ activeSwapSession.channelId # << >>
        /\ next = 0 /\ step >= 1
             => /\ \/ /\ step = 3
                      /\ last'.op = "sendSwapRequest"
                      /\ last'.res = "waiting"
                   \/ /\ last'.op = "executeCompleteSwap"
                      /\ last'.res = Label(step + last'.sent)
                /\ \A c \in channels :
                     c.isOpen => \E d \in channels' :
                                   d.channelId = c.channelId /\ d.isOpen
                /\ \A k \in 1..Len(pendingChan') :
                     pendingChan'[k].op # "closeChannel"]_vars

\* Step 3 of executeCompleteSwap() has failed after the deposit of step 2
\* was confirmed: the record of the channel is still open and nothing is in
\* progress.
C30_Witness ==
  /\ last.op = "executeCompleteSwap"
  /\ last.res = "Swap execution failed"
  /\ last.sent = 0
  /\ activeSwapSession.status = "channel_created"
  /\ \E c \in channels : c.isOpen /\ c.channelId = activeSwapSession.channelId
  /\ pendingChan = << >>

\* C31: when the allowance read, the approval or the deposit of openChannel()
\* or depositToChannel(), or the withdrawal of closeChannel(), fails, the
\* call returns a failure, the channel table and the tables the application
\* holds are unchanged, the channel subscribers are not notified, and the
\* call is over: it requests no later step.
C31_FailedStepEndsCall ==
  [][last'.op \in {"openChannel", "depositToChannel", "closeChannel"}
       /\ last'.res \in {"failed", "TypeError"}
       => /\ channels' = channels
          /\ heldChannels' = heldChannels
          /\ ~last'.cpub
          /\ \E i \in 1..Len(pendingChan) :
               /\ pendingChan[i].op = last'.op
               /\ pendingChan' = RemoveAt(pendingChan, i)]_vars

\* A withdrawal has failed: the record of the channel is still open and no
\* call is in progress.
C31_Witness ==
  /\ last.op = "closeChannel"
  /\ last.res = "failed"
  /\ pendingChan = << >>
  /\ \E c \in channels : c.isOpen /\ c.balance # 0

\* C32: a sweep of refreshChannelBalances() overwrites the balance of the
\* open channels only: a record that is closed when a read of the sweep
\* comes back is the same record afterwards.
C32_SweepLeavesClosedUntouched ==
  [][\A i \in 1..Len(pendingChan), read \in {5, NULL} :
       refreshChannelBalancesRead(i, read)
         => \A c \in channels : ~c.isOpen => c \in channels']_vars

\* C39: in every state every channel record that is not open has the
\* balance '0'.
C39_ClosedChannelHasZeroBalance ==
  \A c \in channels : ~c.isOpen => c.balance = 0

\* C40: a read of the chain that fails during refreshChannelBalances()
\* leaves the balance of every record as it was.
C40_FailedReadKeepsBalance ==
  [][\A i \in 1..Len(pendingChan) :
       refreshChannelBalancesRead(i, NULL)
         => \A c \in channels :
              \E d \in channels' :
                d.channelId = c.channelId /\ d.balance = c.balance]_vars

\* C36: the channel table that logout() emptied is still empty after the
\* step that follows the logout, which is the start of a call or the
\* completion of one that was in progress when logout() ran.
C36_TableStaysEmptyAfterLogout ==
  [][last.op = "logout" => channels' = {}]_vars

\* C33: when the socket opens after a handshake was interrupted (its
\* auth-request was handed to sendMessage before this opening, no
\* acknowledgment came, the account, the signer and the session key are
\* still set), an auth-request is eventually on the new connection.
C33_ReopenStartsHandshake ==
  (/\ last.op = "onopen"
   /\ last.res # "auth"
   /\ pendingAuthReq = << >>
   /\ authState.account # 0
   /\ walletClient # 0
   /\ authState.sessionKey # 0
   /\ authState.isAuthAttempted
   /\ ~authState.isAuthenticated)
    ~> (Count(wire, {"auth_request"}) > 0)

\* C34: the acknowledgment of a verify frame that comes right after a
\* logout() or an error frame (the verify frame was waiting for its answer
\* meanwhile) leaves the client authenticated with the session key whose
\* address the auth-request of that handshake carried.
C34_AuthenticatedWithHandshakeKey ==
  [][\A jwt \in BOOLEAN :
       last.op \in {"logout", "handleError"} /\ handleAuthSuccess(jwt)
         => authState'.sessionKey = wire[1].rkey]_vars

\* C35: when the connection closes while a transfer that was accepted (its
\* request was handed to sendMessage) has no response yet, isTransferring
\* eventually becomes false.
C35_ClosedTransferIsReleased ==
  (/\ last.op = "onclose"
   /\ isTransferring
   /\ pendingTransfer = << >>)
    ~> ~isTransferring

\* C37: a swap_response that ends one wait leaves every other wait whose
\* timer has not fired, for a different swapId, waiting with its filter
\* installed, so that its own response can still end it.
C37_OtherWaitKeepsItsFilter ==
  [][last'.op = "handleSwapResponse"
       /\ last'.res \in {"success", "Swap failed"}
       => \A k \in 1..Len(swapWaits) :
            /\ swapWaits[k].waiting
            /\ swapWaits[k].installed
            /\ swapWaits[k].swapId # wire[1].rexp
            => \E j \in 1..Len(swapWaits') :
                 /\ swapWaits'[j].swapId = swapWaits[k].swapId
                 /\ swapWaits'[j].waiting
                 /\ swapWaits'[j].installed]_vars

\* C38: when the deposit of createSwapChannel(S, ...) is confirmed while the
\* tracked session is not S, the tracked session is left as it is.
C38_OtherSessionNotModified ==
  [][\A i \in 1..Len(pendingChan) :
       /\ pendingChan[i].swap # 0
       /\ activeSwapSession.sessionId # pendingChan[i].swap
       /\ openChannelDeposited(i)
       => activeSwapSession' = activeSwapSession]_vars

====
